---- MODULE Spec2Model ----
(***************************************************************************)
(* Model of boringbin/sbomattr: format detection, SPDX / CycloneDX         *)
(* parsing and resolution, purl-to-URL mapping, deduplication, and the     *)
(* Process / ProcessFiles orchestrator with cooperative cancellation.      *)
(*                                                                         *)
(* Conventions                                                             *)
(*   - a Go string is a TLA+ string;                                       *)
(*   - a Go *string is a sequence: <<>> is the nil pointer, <<s>> points   *)
(*     to s (so a pointer to "" is <<"">>, different from nil);            *)
(*   - a JSON value is a record [t |-> JSON type, s |-> string value];     *)
(*   - a returned ([]Attribution, error) pair is a record                  *)
(*     [attrs, isNil, err], isNil telling a nil slice from an empty one    *)
(*     and err = "" standing for the nil error.                            *)
(***************************************************************************)
EXTENDS Integers, Sequences, FiniteSets, TLC

(***************************************************************************)
(* Bounds of the model.                                                    *)
(***************************************************************************)
MaxFiles == 2      \* longest list of file names handed to ProcessFiles
MaxPkgs == 2       \* longest package / component list of one document
MaxLen == 3        \* longest attribution list handed to Deduplicate directly
MaxRefs == 3       \* longest external reference list of one package / component
MaxLicenses == 2   \* longest licenses list of one component
MaxArgs == 2       \* longest list of path arguments of the command line

SeqsUpTo(S, n) == UNION {[1..k -> S] : k \in 0..n}

(***************************************************************************)
(* Pointers to strings.                                                    *)
(***************************************************************************)
NilPtr == <<>>
Ptr(s) == <<s>>

(***************************************************************************)
(* attribution.PurlToURL                                                   *)
(***************************************************************************)
ErrNone == ""
ErrEmptyPurl == "empty purl string"
ErrUnsupportedPurlType == "unsupported purl type"
ErrParsePurl == "parse purl"

\* strings.TrimSpace(s) == "" on the strings of the model
IsBlank(s) == s \in {"", " ", "  "}

\* The purls the model knows, as packageurl.PackageURL values.
PurlTypes ==
    {"cargo", "composer", "gem", "golang", "maven", "npm", "nuget", "pub", "pypi", "github",
     "docker", "oci", "deb", "rpm", "apk", "hex", "cocoapods", "conda", "bitbucket",
     "mlflow", "zzz"}

KnownPurls ==
    { [type |-> t, namespace |-> ns, name |-> "a", version |-> v] :
        t \in PurlTypes, ns \in {"", "library", "org"}, v \in {"1", "2"} }

\* PackageURL.ToString for the purls of the model.
PurlString(p) ==
    "pkg:" \o p.type \o "/"
           \o (IF p.namespace = "" THEN "" ELSE p.namespace \o "/")
           \o p.name \o "@" \o p.version

\* packageurl.FromString: the parsed purl, or a parse error for a string
\* that is not the text of a purl.
FromString(s) ==
    IF \E p \in KnownPurls : PurlString(p) = s
    THEN [err |-> ErrNone, purl |-> CHOOSE p \in KnownPurls : PurlString(p) = s]
    ELSE [err |-> ErrParsePurl,
          purl |-> [type |-> "", namespace |-> "", name |-> "", version |-> ""]]

buildCargoURL(purl) == Ptr("https://crates.io/crates/" \o purl.name \o "/" \o purl.version)
buildComposerURL(purl) ==
    Ptr("https://packagist.org/packages/" \o purl.namespace \o "/" \o purl.name \o "#" \o purl.version)
buildGemURL(purl) == Ptr("https://rubygems.org/gems/" \o purl.name \o "/versions/" \o purl.version)
buildGolangURL(purl) ==
    IF purl.namespace # ""
    THEN Ptr("https://pkg.go.dev/" \o purl.namespace \o "/" \o purl.name)
    ELSE Ptr("https://pkg.go.dev/" \o purl.name)
\* A plausible slip: the former Maven host.
buildMavenURLFormerHost(purl) ==
    Ptr("https://mvnrepository.com/artifact/" \o purl.namespace \o "/" \o purl.name \o "/" \o purl.version)

buildMavenURL(purl) ==
    Ptr("https://central.sonatype.com/artifact/" \o purl.namespace \o "/" \o purl.name \o "/" \o purl.version)
buildNPMURL(purl) ==
    IF purl.namespace # ""
    THEN Ptr("https://www.npmjs.com/package/" \o purl.namespace \o "/" \o purl.name \o "/v/" \o purl.version)
    ELSE Ptr("https://www.npmjs.com/package/" \o purl.name \o "/v/" \o purl.version)
buildNugetURL(purl) == Ptr("https://www.nuget.org/packages/" \o purl.name \o "/" \o purl.version)
buildPubURL(purl) == Ptr("https://pub.dev/packages/" \o purl.name \o "/versions/" \o purl.version)
buildPypiURL(purl) == Ptr("https://pypi.org/project/" \o purl.name \o "/" \o purl.version \o "/")
buildGithubURL(purl) ==
    Ptr("https://github.com/" \o purl.namespace \o "/" \o purl.name \o "/tree/" \o purl.version)
\* A plausible slip: only the empty namespace taken for an official image.
buildDockerHubURLEmptyOnly(purl) ==
    IF purl.namespace # ""
    THEN Ptr("https://hub.docker.com/r/" \o purl.namespace \o "/" \o purl.name)
    ELSE Ptr("https://hub.docker.com/_/" \o purl.name)
buildDockerHubURL(purl) ==
    IF purl.namespace # "" /\ purl.namespace # "library"
    THEN Ptr("https://hub.docker.com/r/" \o purl.namespace \o "/" \o purl.name)
    ELSE Ptr("https://hub.docker.com/_/" \o purl.name)
buildDebURL(purl) == Ptr("https://packages.debian.org/" \o purl.name)
buildRpmURL(purl) == Ptr("https://rpmfind.net/linux/rpm2html/search.php?query=" \o purl.name)
buildApkURL(purl) == Ptr("https://pkgs.alpinelinux.org/packages?name=" \o purl.name)
buildHexURL(purl) == Ptr("https://hex.pm/packages/" \o purl.name \o "/" \o purl.version)
buildCocoapodsURL(purl) == Ptr("https://cocoapods.org/pods/" \o purl.name)
buildCondaURL(purl) ==
    IF purl.namespace # ""
    THEN Ptr("https://anaconda.org/" \o purl.namespace \o "/" \o purl.name)
    ELSE Ptr("https://anaconda.org/anaconda/" \o purl.name)
buildBitbucketURL(purl) ==
    Ptr("https://bitbucket.org/" \o purl.namespace \o "/" \o purl.name \o "/src/" \o purl.version)

mapPurlToURL(purl) ==
    CASE purl.type = "cargo" -> [url |-> buildCargoURL(purl), err |-> ErrNone]
      [] purl.type = "composer" -> [url |-> buildComposerURL(purl), err |-> ErrNone]
      [] purl.type = "gem" -> [url |-> buildGemURL(purl), err |-> ErrNone]
      [] purl.type = "golang" -> [url |-> buildGolangURL(purl), err |-> ErrNone]
      [] purl.type = "maven" -> [url |-> buildMavenURL(purl), err |-> ErrNone]
      [] purl.type = "npm" -> [url |-> buildNPMURL(purl), err |-> ErrNone]
      [] purl.type = "nuget" -> [url |-> buildNugetURL(purl), err |-> ErrNone]
      [] purl.type = "pub" -> [url |-> buildPubURL(purl), err |-> ErrNone]
      [] purl.type = "pypi" -> [url |-> buildPypiURL(purl), err |-> ErrNone]
      [] purl.type = "github" -> [url |-> buildGithubURL(purl), err |-> ErrNone]
      [] purl.type \in {"docker", "oci"} -> [url |-> buildDockerHubURL(purl), err |-> ErrNone]
      [] purl.type = "deb" -> [url |-> buildDebURL(purl), err |-> ErrNone]
      [] purl.type = "rpm" -> [url |-> buildRpmURL(purl), err |-> ErrNone]
      [] purl.type = "apk" -> [url |-> buildApkURL(purl), err |-> ErrNone]
      [] purl.type = "hex" -> [url |-> buildHexURL(purl), err |-> ErrNone]
      [] purl.type = "cocoapods" -> [url |-> buildCocoapodsURL(purl), err |-> ErrNone]
      [] purl.type = "conda" -> [url |-> buildCondaURL(purl), err |-> ErrNone]
      [] purl.type = "bitbucket" -> [url |-> buildBitbucketURL(purl), err |-> ErrNone]
      [] OTHER -> [url |-> NilPtr, err |-> ErrUnsupportedPurlType]

\* A plausible slip: the empty test without strings.TrimSpace.
PurlToURLNoTrim(str) ==
    IF str = ""
    THEN [url |-> NilPtr, err |-> ErrEmptyPurl]
    ELSE LET parsed == FromString(str)
         IN  IF parsed.err # ErrNone
             THEN [url |-> NilPtr, err |-> ErrParsePurl]
             ELSE mapPurlToURL(parsed.purl)

PurlToURL(str) ==
    IF IsBlank(str)
    THEN [url |-> NilPtr, err |-> ErrEmptyPurl]
    ELSE LET parsed == FromString(str)
         IN  IF parsed.err # ErrNone
             THEN [url |-> NilPtr, err |-> ErrParsePurl]
             ELSE mapPurlToURL(parsed.purl)

(***************************************************************************)
(* attribution.Attribution and attribution.Deduplicate                     *)
(***************************************************************************)
Attribution(name, license, url, purl) ==
    [Name |-> name, License |-> license, URL |-> url, Purl |-> purl]

\* A plausible slip: the name as the key whatever the purl is.
KeyByNameOnly(a) == a.Name

\* key := a.Purl; if key == "" { key = a.Name }
Key(a) == IF a.Purl = "" THEN a.Name ELSE a.Purl

\* A plausible slip: a dropped duplicate clears the map entry of its key.
RECURSIVE DedupLoopForgetting(_, _, _, _)
DedupLoopForgetting(attributions, i, seen, result) ==
    IF i > Len(attributions) THEN result
    ELSE IF Key(attributions[i]) \notin seen
    THEN DedupLoopForgetting(attributions, i + 1, seen \cup {Key(attributions[i])},
                             Append(result, attributions[i]))
    ELSE DedupLoopForgetting(attributions, i + 1, seen \ {Key(attributions[i])}, result)

\* The loop of Deduplicate: seen is the set of keys whose map entry is true.
RECURSIVE DedupLoop(_, _, _, _)
DedupLoop(attributions, i, seen, result) ==
    IF i > Len(attributions) THEN result
    ELSE LET a == attributions[i]
             key == Key(a)
         IN  IF key \notin seen
             THEN DedupLoop(attributions, i + 1, seen \cup {key}, Append(result, a))
             ELSE DedupLoop(attributions, i + 1, seen, result)

Deduplicate(attributions) == DedupLoop(attributions, 1, {}, <<>>)

(***************************************************************************)
(* JSON input.  The bytes of a file are either not a JSON object           *)
(* (json = "invalid") or a JSON object with the keys the program looks at: *)
(* the value of the top-level sbom key, the other keys of the top-level    *)
(* object (outer) and, when sbom holds an object, its keys (inner).        *)
(***************************************************************************)
JAbsent == [t |-> "absent", s |-> ""]
JNull == [t |-> "null", s |-> ""]
JNum == [t |-> "number", s |-> ""]
JStr(str) == [t |-> "string", s |-> str]
JObj == [t |-> "object", s |-> ""]
JArray == [t |-> "array", s |-> ""]

NoList == [t |-> "absent", items |-> <<>>]
NotAList == [t |-> "string", items |-> <<>>]
NullList == [t |-> "null", items |-> <<>>]
JArr(items) == [t |-> "array", items |-> items]

Obj(ver, id, fmt, pkgs, comps) ==
    [spdxVersion |-> ver, SPDXID |-> id, bomFormat |-> fmt, packages |-> pkgs, components |-> comps]

EmptyObj == Obj(JAbsent, JAbsent, JAbsent, NoList, NoList)

InvalidJSON == [json |-> "invalid", sbom |-> JAbsent, outer |-> EmptyObj, inner |-> EmptyObj]
Plain(o) == [json |-> "object", sbom |-> JAbsent, outer |-> o, inner |-> EmptyObj]
\* {"sbom": <inner>, <the keys of outer>}
Wrapped(outer, inner) == [json |-> "object", sbom |-> JObj, outer |-> outer, inner |-> inner]
\* {"sbom": <a value that is not an object>, <the keys of outer>}
WithSbomValue(v, outer) == [json |-> "object", sbom |-> v, outer |-> outer, inner |-> EmptyObj]

(***************************************************************************)
(* internal/sbom.DetectFormat                                              *)
(***************************************************************************)
ErrJSON == "invalid JSON"
ErrUnknownFormat == "unknown SBOM format: could not detect SPDX or CycloneDX markers"

\* A plausible slip: the value of the sbom key taken whatever its type, a
\* value that is not an object read as an object without keys.
WorkingObjectAnySbom(data) == IF data.sbom.t # "absent" THEN data.inner ELSE data.outer

\* if sbomData, hasWrapper := raw["sbom"]; hasWrapper { if sbomMap, ok := ...; ok { raw = sbomMap } }
WorkingObject(data) == IF data.sbom.t = "object" THEN data.inner ELSE data.outer

\* A plausible slip: the CycloneDX marker tested before the SPDX markers.
ClassifyCycloneDXFirst(raw) ==
    IF raw.bomFormat.t = "string" /\ raw.bomFormat.s = "CycloneDX"
    THEN [format |-> "cyclonedx", err |-> ErrNone]
    ELSE IF raw.spdxVersion.t # "absent" \/ (raw.SPDXID.t = "string" /\ raw.SPDXID.s # "")
    THEN [format |-> "spdx", err |-> ErrNone]
    ELSE [format |-> "", err |-> ErrUnknownFormat]

\* The marker tests of DetectFormat on the working map.
Classify(raw) ==
    IF raw.spdxVersion.t # "absent"
    THEN [format |-> "spdx", err |-> ErrNone]
    ELSE IF raw.SPDXID.t = "string" /\ raw.SPDXID.s # ""
    THEN [format |-> "spdx", err |-> ErrNone]
    ELSE IF raw.bomFormat.t = "string" /\ raw.bomFormat.s = "CycloneDX"
    THEN [format |-> "cyclonedx", err |-> ErrNone]
    ELSE [format |-> "", err |-> ErrUnknownFormat]

DetectFormat(data) ==
    IF data.json # "object"
    THEN [format |-> "", err |-> ErrJSON]
    ELSE Classify(WorkingObject(data))

(***************************************************************************)
(* spdxextract: ParseSBOM and ExtractPackages                              *)
(***************************************************************************)
\* encoding/json stores a JSON string or null into a Go string field and
\* rejects any other JSON type.
FitsString(v) == v.t \in {"absent", "null", "string"}
\* ... and a JSON array or null into a slice field.
FitsSlice(l) == l.t \in {"absent", "null", "array"}

\* unwrapGitHubSBOM: the value of the sbom key whatever its type, else the
\* whole input.
unwrapGitHubSBOM(data) ==
    IF data.json # "object"
    THEN [err |-> ErrJSON, t |-> "", obj |-> EmptyObj]
    ELSE IF data.sbom.t # "absent"
    THEN [err |-> ErrNone, t |-> data.sbom.t, obj |-> data.inner]
    ELSE [err |-> ErrNone, t |-> "object", obj |-> data.outer]

ZeroDocument == [Packages |-> <<>>, PackagesNil |-> TRUE]

SpdxParseSBOM(data) ==
    LET u == unwrapGitHubSBOM(data)
    IN  IF u.err # ErrNone
        THEN [err |-> u.err, doc |-> ZeroDocument]
        ELSE IF u.t = "null"
        THEN [err |-> ErrNone, doc |-> ZeroDocument]
        ELSE IF u.t # "object"
        THEN [err |-> "failed to parse SBOM JSON", doc |-> ZeroDocument]
        ELSE IF ~(FitsString(u.obj.spdxVersion) /\ FitsString(u.obj.SPDXID)
                  /\ FitsSlice(u.obj.packages))
        THEN [err |-> "failed to parse SBOM JSON", doc |-> ZeroDocument]
        ELSE [err |-> ErrNone,
              doc |-> [Packages |-> u.obj.packages.items,
                       PackagesNil |-> u.obj.packages.t # "array"]]

\* A plausible slip: the address of the partly filled document returned
\* together with the error.
SpdxParseKeepingDocument(data) ==
    LET r == SpdxParseSBOM(data) IN [err |-> r.err, doc |-> <<r.doc>>]

\* spdxextract.ParseSBOM: (nil, err) on failure, (&doc, nil) on success.
SpdxParse(data) ==
    LET r == SpdxParseSBOM(data)
    IN  IF r.err # ErrNone THEN [err |-> r.err, doc |-> <<>>]
        ELSE [err |-> ErrNone, doc |-> <<r.doc>>]

Package(name, homepage, concluded, declared, refs) ==
    [Name |-> name, Homepage |-> homepage, LicenseConcluded |-> concluded,
     LicenseDeclared |-> declared, ExternalRefs |-> refs]
ExternalRef(type, locator) == [ReferenceType |-> type, ReferenceLocator |-> locator]

\* A plausible slip: the loop without its break, the last purl reference winning.
RECURSIVE SpdxPurlLastFrom(_, _, _)
SpdxPurlLastFrom(refs, i, found) ==
    IF i > Len(refs) THEN found
    ELSE IF refs[i].ReferenceType = "purl" THEN SpdxPurlLastFrom(refs, i + 1, refs[i].ReferenceLocator)
    ELSE SpdxPurlLastFrom(refs, i + 1, found)

SpdxPurlLast(refs, i) == SpdxPurlLastFrom(refs, i, "")

\* for _, ref := range pkg.ExternalRefs { if ref.ReferenceType == "purl" { ...; break } }
RECURSIVE SpdxPurl(_, _)
SpdxPurl(refs, i) ==
    IF i > Len(refs) THEN ""
    ELSE IF refs[i].ReferenceType = "purl" THEN refs[i].ReferenceLocator
    ELSE SpdxPurl(refs, i + 1)

\* A plausible slip: "NONE" taken for an absent concluded license too.
SpdxAttributionNoneFallsBack(pkg) ==
    LET license == IF pkg.LicenseConcluded \in {"", "NOASSERTION", "NONE"}
                   THEN pkg.LicenseDeclared
                   ELSE pkg.LicenseConcluded
        purl == SpdxPurl(pkg.ExternalRefs, 1)
        url == IF pkg.Homepage # "" /\ pkg.Homepage # "NONE" /\ pkg.Homepage # "NOASSERTION"
               THEN Ptr(pkg.Homepage)
               ELSE IF purl # ""
               THEN LET r == PurlToURL(purl) IN IF r.err = ErrNone THEN r.url ELSE NilPtr
               ELSE NilPtr
    IN  Attribution(pkg.Name, Ptr(license), url, purl)

\* A plausible slip: the homepage tested against the empty string only.
SpdxAttributionAnyHomepage(pkg) ==
    LET license == IF pkg.LicenseConcluded = "" \/ pkg.LicenseConcluded = "NOASSERTION"
                   THEN pkg.LicenseDeclared
                   ELSE pkg.LicenseConcluded
        purl == SpdxPurl(pkg.ExternalRefs, 1)
        url == IF pkg.Homepage # ""
               THEN Ptr(pkg.Homepage)
               ELSE IF purl # ""
               THEN LET r == PurlToURL(purl) IN IF r.err = ErrNone THEN r.url ELSE NilPtr
               ELSE NilPtr
    IN  Attribution(pkg.Name, Ptr(license), url, purl)

\* The body of the loop of spdxextract.ExtractPackages.
SpdxAttribution(pkg) ==
    LET license == IF pkg.LicenseConcluded = "" \/ pkg.LicenseConcluded = "NOASSERTION"
                   THEN pkg.LicenseDeclared
                   ELSE pkg.LicenseConcluded
        purl == SpdxPurl(pkg.ExternalRefs, 1)
        url == IF pkg.Homepage # "" /\ pkg.Homepage # "NONE" /\ pkg.Homepage # "NOASSERTION"
               THEN Ptr(pkg.Homepage)
               ELSE IF purl # ""
               THEN LET r == PurlToURL(purl) IN IF r.err = ErrNone THEN r.url ELSE NilPtr
               ELSE NilPtr
    IN  Attribution(pkg.Name, Ptr(license), url, purl)

\* A plausible slip: a package without a name left out.
RECURSIVE SpdxSkipUnnamedFrom(_, _)
SpdxSkipUnnamedFrom(pkgs, i) ==
    IF i > Len(pkgs) THEN <<>>
    ELSE IF pkgs[i].Name = "" THEN SpdxSkipUnnamedFrom(pkgs, i + 1)
    ELSE <<SpdxAttribution(pkgs[i])>> \o SpdxSkipUnnamedFrom(pkgs, i + 1)

SpdxExtractPackagesSkippingUnnamed(document) ==
    IF document.PackagesNil THEN <<>> ELSE SpdxSkipUnnamedFrom(document.Packages, 1)

\* The loop of spdxextract.ExtractPackages on a document that is not nil.
\* Each iteration has its own pkg (Go 1.22 loop variables), so &pkg.Homepage
\* of one package is not shared with the next.
SpdxExtractPackages(document) ==
    IF document.PackagesNil THEN <<>>
    ELSE [i \in 1..Len(document.Packages) |-> SpdxAttribution(document.Packages[i])]

\* A plausible slip: nil returned for a nil document.
SpdxExtractPackagesNilForNil(docPtr) ==
    IF docPtr = <<>> THEN [attrs |-> <<>>, isNil |-> TRUE]
    ELSE [attrs |-> SpdxExtractPackages(docPtr[1]), isNil |-> FALSE]

\* spdxextract.ExtractPackages(doc *Document): the list and whether it is nil.
SpdxExtractPackagesOf(docPtr) ==
    IF docPtr = <<>> THEN [attrs |-> <<>>, isNil |-> FALSE]
    ELSE [attrs |-> SpdxExtractPackages(docPtr[1]), isNil |-> FALSE]

(***************************************************************************)
(* cyclonedxextract: ParseSBOM and ExtractPackages                         *)
(***************************************************************************)
ZeroBOM == [Components |-> <<>>, ComponentsNil |-> TRUE]

\* json.Unmarshal(data, &bom): the top-level object, never the sbom value.
CdxParseSBOM(data) ==
    IF data.json # "object"
    THEN [err |-> ErrJSON, bom |-> ZeroBOM]
    ELSE IF ~(FitsString(data.outer.bomFormat) /\ FitsSlice(data.outer.components))
    THEN [err |-> "failed to parse CycloneDX JSON", bom |-> ZeroBOM]
    ELSE [err |-> ErrNone,
          bom |-> [Components |-> data.outer.components.items,
                   ComponentsNil |-> data.outer.components.t # "array"]]

\* cyclonedxextract.ParseSBOM: (nil, err) on failure, (&bom, nil) on success.
CdxParse(data) ==
    LET r == CdxParseSBOM(data)
    IN  IF r.err # ErrNone THEN [err |-> r.err, bom |-> <<>>]
        ELSE [err |-> ErrNone, bom |-> <<r.bom>>]

\* Licenses is <<>> (nil) or <<list of LicenseChoice>>; a LicenseChoice's
\* License is <<>> (nil) or <<License>>.
Component(name, purl, licenses, refs) ==
    [Name |-> name, Purl |-> purl, Licenses |-> licenses, ExternalReferences |-> refs]
License(id, name, expression) == [ID |-> id, Name |-> name, Expression |-> expression]
LicenseChoice(license) == [License |-> license]
ExternalReference(type, url) == [Type |-> type, URL |-> url]

\* A plausible slip: the license ID preferred to the expression.
extractLicenseIDFirst(licenses) ==
    IF licenses = <<>> \/ Len(licenses[1]) = 0 THEN NilPtr
    ELSE LET firstLicense == licenses[1][1]
         IN  IF firstLicense.License # <<>>
             THEN IF firstLicense.License[1].ID # ""
                  THEN Ptr(firstLicense.License[1].ID)
                  ELSE IF firstLicense.License[1].Expression # ""
                  THEN Ptr(firstLicense.License[1].Expression)
                  ELSE IF firstLicense.License[1].Name # ""
                  THEN Ptr(firstLicense.License[1].Name)
                  ELSE NilPtr
             ELSE NilPtr

extractLicense(licenses) ==
    IF licenses = <<>> \/ Len(licenses[1]) = 0 THEN NilPtr
    ELSE LET firstLicense == licenses[1][1]
         IN  IF firstLicense.License # <<>>
             THEN IF firstLicense.License[1].Expression # ""
                  THEN Ptr(firstLicense.License[1].Expression)
                  ELSE IF firstLicense.License[1].ID # ""
                  THEN Ptr(firstLicense.License[1].ID)
                  ELSE IF firstLicense.License[1].Name # ""
                  THEN Ptr(firstLicense.License[1].Name)
                  ELSE NilPtr
             ELSE NilPtr

priorityOrder == <<"website", "distribution", "documentation", "vcs">>

\* The nested loops of findBestExternalRefURL, from priority p and reference i.
RECURSIVE BestRefFrom(_, _, _)
BestRefFrom(refs, p, i) ==
    IF p > Len(priorityOrder) THEN NilPtr
    ELSE IF i > Len(refs) THEN BestRefFrom(refs, p + 1, 1)
    ELSE IF refs[i].Type = priorityOrder[p] /\ refs[i].URL # "" THEN Ptr(refs[i].URL)
    ELSE BestRefFrom(refs, p, i + 1)

\* A plausible slip: a single pass in document order over the references
\* of a listed type.
RECURSIVE FirstListedRefFrom(_, _)
FirstListedRefFrom(refs, i) ==
    IF i > Len(refs) THEN NilPtr
    ELSE IF refs[i].Type \in {"website", "distribution", "documentation", "vcs"} /\ refs[i].URL # ""
    THEN Ptr(refs[i].URL)
    ELSE FirstListedRefFrom(refs, i + 1)

findFirstExternalRefURL(refs) == FirstListedRefFrom(refs, 1)

findBestExternalRefURL(refs) ==
    IF Len(refs) = 0 THEN NilPtr ELSE BestRefFrom(refs, 1, 1)

\* The body of the loop of cyclonedxextract.ExtractPackages.
CdxAttribution(component) ==
    LET purl == component.Purl
        refURL == findBestExternalRefURL(component.ExternalReferences)
        url == IF refURL # NilPtr THEN refURL
               ELSE IF purl # ""
               THEN LET r == PurlToURL(purl) IN IF r.err = ErrNone THEN r.url ELSE NilPtr
               ELSE NilPtr
        license == IF component.Licenses # <<>> THEN extractLicense(component.Licenses) ELSE NilPtr
    IN  Attribution(component.Name, license, url, purl)

\* The loop of cyclonedxextract.ExtractPackages on a BOM that is not nil.
CdxExtractPackages(b) ==
    IF b.ComponentsNil THEN <<>>
    ELSE [i \in 1..Len(b.Components) |-> CdxAttribution(b.Components[i])]

\* cyclonedxextract.ExtractPackages(bom *BOM): the list and whether it is nil.
CdxExtractPackagesOf(bomPtr) ==
    IF bomPtr = <<>> THEN [attrs |-> <<>>, isNil |-> FALSE]
    ELSE [attrs |-> CdxExtractPackages(bomPtr[1]), isNil |-> FALSE]

(***************************************************************************)
(* sbomattr.Process                                                        *)
(***************************************************************************)
ErrCanceled == "context canceled"
ErrDetect == "detect format"
ErrParseSPDX == "parse SPDX"
ErrParseCycloneDX == "parse CycloneDX"
ErrNoAttributions == "no attributions extracted from any file"

Return(attrs, err) == [attrs |-> attrs, isNil |-> FALSE, err |-> err]
ReturnNil(err) == [attrs |-> <<>>, isNil |-> TRUE, err |-> err]
NotReturned == ReturnNil(ErrNone)

\* A plausible slip: Process without its cancellation check.
ProcessNoCheck(done, bytes) ==
    LET detected == DetectFormat(bytes)
    IN  IF detected.err # ErrNone THEN ReturnNil(ErrDetect)
        ELSE IF detected.format = "spdx"
        THEN LET parsed == SpdxParseSBOM(bytes)
             IN  IF parsed.err # ErrNone THEN ReturnNil(ErrParseSPDX)
                 ELSE Return(SpdxExtractPackages(parsed.doc), ErrNone)
        ELSE LET parsed == CdxParseSBOM(bytes)
             IN  IF parsed.err # ErrNone THEN ReturnNil(ErrParseCycloneDX)
                 ELSE Return(CdxExtractPackages(parsed.bom), ErrNone)

\* A plausible slip: Process deduplicating its own result.
ProcessDeduplicating(done, bytes) ==
    LET r == ProcessNoCheck(done, bytes)
    IN  IF done THEN ReturnNil(ErrCanceled)
        ELSE IF r.err # ErrNone THEN r
        ELSE Return(Deduplicate(r.attrs), ErrNone)

\* Process(ctx, data, logger); done tells whether ctx.Done() is closed when
\* the select at the top of Process runs.
Process(done, bytes) ==
    IF done THEN ReturnNil(ErrCanceled)
    ELSE LET detected == DetectFormat(bytes)
         IN  IF detected.err # ErrNone THEN ReturnNil(ErrDetect)
             ELSE IF detected.format = "spdx"
             THEN LET parsed == SpdxParseSBOM(bytes)
                  IN  IF parsed.err # ErrNone THEN ReturnNil(ErrParseSPDX)
                      ELSE Return(SpdxExtractPackages(parsed.doc), ErrNone)
             ELSE IF detected.format = "cyclonedx"
             THEN LET parsed == CdxParseSBOM(bytes)
                  IN  IF parsed.err # ErrNone THEN ReturnNil(ErrParseCycloneDX)
                      ELSE Return(CdxExtractPackages(parsed.bom), ErrNone)
             ELSE ReturnNil("unsupported SBOM format")

(***************************************************************************)
(* The inputs of the model.                                                *)
(***************************************************************************)
PurlA == "pkg:npm/a@1"

\* SPDX packages: PkgA and PkgA2 share the key PurlA, PkgA2 having the more
\* complete fields; PkgB has no purl and the key "b".
PkgA == Package("a", "", "MIT", "", <<ExternalRef("purl", PurlA)>>)
PkgA2 == Package("a-dup", "https://a.example", "NOASSERTION", "Apache-2.0",
                 <<ExternalRef("other", "x"), ExternalRef("purl", PurlA)>>)
PkgB == Package("b", "NONE", "", "", <<>>)
SpdxPkgs == {PkgA, PkgA2, PkgB}

\* CycloneDX components: CompA has the key of PkgA, CompB the key of PkgB.
CompA == Component("a", PurlA, <<>>, <<>>)
CompB == Component("b", "", << <<LicenseChoice(<<License("MIT", "", "")>>)>> >>,
                   <<ExternalReference("vcs", "https://git.example/b"),
                     ExternalReference("website", "https://b.example")>>)
Components == {CompA, CompB}

PkgLists == SeqsUpTo(SpdxPkgs, MaxPkgs)
CompLists == SeqsUpTo(Components, MaxPkgs)

SpdxObj(pkgs) == Obj(JStr("SPDX-2.3"), JStr("SPDXRef-DOCUMENT"), JAbsent, JArr(pkgs), NoList)
CdxObj(comps) == Obj(JAbsent, JAbsent, JStr("CycloneDX"), NoList, JArr(comps))

\* A file of the file system: unreadable, or readable with its bytes.
Unreadable == [readable |-> FALSE, bytes |-> InvalidJSON]
Readable(bytes) == [readable |-> TRUE, bytes |-> bytes]

FileSet ==
    {Unreadable, Readable(InvalidJSON), Readable(Plain(EmptyObj)),
     Readable(Plain(Obj(JStr("SPDX-2.3"), JAbsent, JAbsent, NotAList, NoList))),
     Readable(Plain(Obj(JAbsent, JAbsent, JStr("CycloneDX"), NoList, NotAList))),
     Readable(Wrapped(EmptyObj, SpdxObj(<<PkgA, PkgB>>))),
     Readable(Wrapped(EmptyObj, CdxObj(<<CompA, CompB>>)))}
    \cup {Readable(Plain(SpdxObj(l))) : l \in PkgLists}
    \cup {Readable(Plain(CdxObj(l))) : l \in CompLists}

(***************************************************************************)
(* State.                                                                  *)
(***************************************************************************)
(***************************************************************************)
(* sbomattr.ProcessFiles as one step, for a context that is never          *)
(* cancelled (context.Background()).                                       *)
(***************************************************************************)
\* The loop of ProcessFiles: the attributions of the files that os.ReadFile
\* reads and Process accepts, in the order of the files.
RECURSIVE CollectAttributions(_, _)
CollectAttributions(files, i) ==
    IF i > Len(files) THEN <<>>
    ELSE LET r == Process(FALSE, files[i].bytes)
         IN  (IF files[i].readable /\ r.err = ErrNone THEN r.attrs ELSE <<>>)
                 \o CollectAttributions(files, i + 1)

ProcessFilesBackground(files) ==
    LET all == CollectAttributions(files, 1)
    IN  IF Len(all) = 0 THEN ReturnNil(ErrNoAttributions)
        ELSE Return(Deduplicate(all), ErrNone)

(***************************************************************************)
(* cmd/sbomattr: run, expandPaths, and format.CSV on os.Stdout             *)
(***************************************************************************)
exitSuccess == 0
exitInvalidArgs == 1
exitInvalidSBOM == 2
exitRuntimeError == 3
NoExit == -1

\* A path of the command line: one os.Stat fails on, a regular file, or a
\* directory that os.ReadDir reads or does not.
MissingPath == [kind |-> "missing", entries |-> <<>>, file |-> Unreadable]
RegularFile(f) == [kind |-> "file", entries |-> <<>>, file |-> f]
Directory(entries) == [kind |-> "dir", entries |-> entries, file |-> Unreadable]
UnreadableDirectory == [kind |-> "unreadable-dir", entries |-> <<>>, file |-> Unreadable]
\* A directory entry: a subdirectory, or a file with or without the suffix .json.
DirEntry(isDir, json, f) == [isDir |-> isDir, json |-> json, file |-> f]

\* The inner loop of expandPaths: the .json files of a directory.
RECURSIVE JSONFilesFrom(_, _)
JSONFilesFrom(entries, i) ==
    IF i > Len(entries) THEN <<>>
    ELSE (IF ~entries[i].isDir /\ entries[i].json THEN <<entries[i].file>> ELSE <<>>)
             \o JSONFilesFrom(entries, i + 1)

\* A plausible slip: a path that cannot be accessed kept as a file.
RECURSIVE expandPathsKeepingMissing(_)
expandPathsKeepingMissing(paths) ==
    IF paths = <<>> THEN <<>>
    ELSE (CASE Head(paths).kind \in {"missing", "file"} -> <<Head(paths).file>>
            [] Head(paths).kind = "unreadable-dir" -> <<>>
            [] Head(paths).kind = "dir" -> JSONFilesFrom(Head(paths).entries, 1))
             \o expandPathsKeepingMissing(Tail(paths))

RECURSIVE expandPaths(_)
expandPaths(paths) ==
    IF paths = <<>> THEN <<>>
    ELSE (CASE Head(paths).kind = "missing" -> <<>>
            [] Head(paths).kind = "unreadable-dir" -> <<>>
            [] Head(paths).kind = "dir" -> JSONFilesFrom(Head(paths).entries, 1)
            [] Head(paths).kind = "file" -> <<Head(paths).file>>)
             \o expandPaths(Tail(paths))

\* format.CSV on a writer whose Write fails or not.  csv.Writer buffers its
\* output: a Write of the csv.Writer reports an error of the underlying
\* writer only when the output spills over the buffer before the end; the
\* rest goes out in the deferred Flush, whose error CSV does not look at.
CSV(writerFails, spills) ==
    [err |-> IF writerFails /\ spills THEN "write CSV row" ELSE ErrNone,
     written |-> ~writerFails]

NoCli ==
    [flags |-> "ok", showVersion |-> FALSE, args |-> <<>>, stdoutFails |-> FALSE,
     spills |-> FALSE, exit |-> NoExit, osExit |-> NoExit, examined |-> FALSE,
     handed |-> FALSE, written |-> FALSE]

VARIABLES
    filenames,        \* ProcessFiles: the files named by the argument, in order
    cancelled,        \* ctx.Done() is closed
    pc,               \* position of the running call
    idx,              \* ProcessFiles: index of the current file
    data,             \* the bytes read from the current file / Process's argument
    allAttributions,  \* ProcessFiles: the accumulated attributions
    procRet,          \* what the last call of Process returned
    ret,              \* what ProcessFiles returned
    startCancelled,   \* history: ctx was cancelled before the call
    observed,         \* history: a cancellation check saw ctx.Done() closed
    reads,            \* history: the indices handed to os.ReadFile, in order
    okFiles,          \* history: the indices whose Process call succeeded
    det,              \* what DetectFormat returned
    attributions,     \* Deduplicate's argument
    deduped,          \* what Deduplicate returned
    purlString,       \* PurlToURL's argument
    purlRet,          \* what PurlToURL returned
    doc,              \* spdxextract.ExtractPackages' argument: <<>> (nil) or <<Document>>
    bom,              \* cyclonedxextract.ExtractPackages' argument: <<>> (nil) or <<BOM>>
    extracted,        \* what ExtractPackages returned
    parseErr,         \* what ParseSBOM returned as its error
    cli,              \* cmd/sbomattr: the command line, the state of stdout and what run did
    calls,            \* the concurrent calls of the engine, each with its own inputs and locals
    sink              \* the diagnostic sink: the records written through a non-nil logger

vars == <<filenames, cancelled, pc, idx, data, allAttributions, procRet, ret,
          startCancelled, observed, reads, okFiles, det, attributions, deduped,
          purlString, purlRet, doc, bom, extracted,
          parseErr, cli, calls, sink>>

\* The variables of the calls of PurlToURL and of the two ExtractPackages.
resolverVars == <<purlString, purlRet, doc, bom, extracted, parseErr, cli, calls, sink>>

NoDet == [format |-> "", err |-> ErrNone]
NoURL == [url |-> NilPtr, err |-> ErrNone]
NotExtracted == [attrs |-> <<>>, isNil |-> TRUE]

\* The state of the resolver variables in a run that does not use them.
NoResolverCall ==
    /\ purlString = ""
    /\ purlRet = NoURL
    /\ doc = <<>>
    /\ bom = <<>>
    /\ extracted = NotExtracted
    /\ sink = {}
    /\ calls = <<>>
    /\ cli = NoCli
    /\ parseErr = ""

(***************************************************************************)
(* sbomattr.ProcessFiles, with the context cancelled by another goroutine  *)
(* at any moment.  The call is cut at the points where it looks at the     *)
(* context: the select at the head of the loop and the select in Process.  *)
(***************************************************************************)
Init ==
    /\ filenames \in SeqsUpTo(FileSet, MaxFiles)
    /\ cancelled \in BOOLEAN
    /\ startCancelled = cancelled
    /\ pc = "loop"
    /\ idx = 1
    /\ data = InvalidJSON
    /\ allAttributions = <<>>
    /\ procRet = NotReturned
    /\ ret = NotReturned
    /\ observed = FALSE
    /\ reads = <<>>
    /\ okFiles = <<>>
    /\ det = NoDet
    /\ attributions = <<>>
    /\ deduped = <<>>
    /\ NoResolverCall

\* cancel() called by the owner of the context
Cancel ==
    /\ pc \in {"loop", "read", "process"}
    /\ ~cancelled
    /\ cancelled' = TRUE
    /\ UNCHANGED <<filenames, pc, idx, data, allAttributions, procRet, ret,
                   startCancelled, observed, reads, okFiles, det, attributions, deduped, resolverVars>>

\* A plausible slip: the loop without its cancellation check.
LoopCheckNoSelect ==
    /\ pc = "loop"
    /\ idx <= Len(filenames)
    /\ pc' = "read"
    /\ UNCHANGED <<filenames, cancelled, idx, data, allAttributions, procRet, ret,
                   startCancelled, observed, reads, okFiles, det, attributions, deduped, resolverVars>>

\* A plausible slip: the cancellation seen and noted, the file read all the same.
LoopCheckReadingOn ==
    /\ pc = "loop"
    /\ idx <= Len(filenames)
    /\ observed' = (observed \/ cancelled)
    /\ pc' = "read"
    /\ UNCHANGED <<filenames, cancelled, idx, data, allAttributions, procRet, ret,
                   startCancelled, reads, okFiles, det, attributions, deduped, resolverVars>>

\* for _, filename := range filenames { select { case <-ctx.Done(): return nil, ctx.Err() ...
LoopCheck ==
    /\ pc = "loop"
    /\ idx <= Len(filenames)
    /\ IF cancelled
       THEN /\ ret' = ReturnNil(ErrCanceled)
            /\ observed' = TRUE
            /\ pc' = "done"
       ELSE /\ pc' = "read"
            /\ UNCHANGED <<ret, observed>>
    /\ UNCHANGED <<filenames, cancelled, idx, data, allAttributions, procRet,
                   startCancelled, reads, okFiles, det, attributions, deduped, resolverVars>>

\* A plausible slip: a file that cannot be read ends the batch.
ReadFileAborting ==
    /\ pc = "read"
    /\ reads' = Append(reads, idx)
    /\ IF filenames[idx].readable
       THEN /\ data' = filenames[idx].bytes
            /\ pc' = "process"
            /\ UNCHANGED <<idx, ret>>
       ELSE /\ ret' = ReturnNil("read file")
            /\ pc' = "done"
            /\ UNCHANGED <<idx, data>>
    /\ UNCHANGED <<filenames, cancelled, allAttributions, procRet,
                   startCancelled, observed, okFiles, det, attributions, deduped, resolverVars>>

\* data, err := os.ReadFile(filename); if err != nil { ...; continue }
ReadFile ==
    /\ pc = "read"
    /\ reads' = Append(reads, idx)
    /\ IF filenames[idx].readable
       THEN /\ data' = filenames[idx].bytes
            /\ pc' = "process"
            /\ UNCHANGED idx
       ELSE /\ idx' = idx + 1
            /\ pc' = "loop"
            /\ UNCHANGED data
    /\ UNCHANGED <<filenames, cancelled, allAttributions, procRet, ret,
                   startCancelled, observed, okFiles, det, attributions, deduped, resolverVars>>

\* A plausible slip: allAttributions = attrs, the list replaced by the
\* attributions of the latest file.
ProcessFileOverwriting ==
    /\ pc = "process"
    /\ procRet' = Process(cancelled, data)
    /\ observed' = (observed \/ cancelled)
    /\ IF procRet'.err # ErrNone
       THEN UNCHANGED <<allAttributions, okFiles>>
       ELSE /\ allAttributions' = procRet'.attrs
            /\ okFiles' = Append(okFiles, idx)
    /\ idx' = idx + 1
    /\ pc' = "loop"
    /\ UNCHANGED <<filenames, cancelled, data, ret, startCancelled, reads,
                   det, attributions, deduped, resolverVars>>

\* attrs, err := Process(ctx, data, logger); if err != nil { ...; continue }
\* allAttributions = append(allAttributions, attrs...)
ProcessFile ==
    /\ pc = "process"
    /\ procRet' = Process(cancelled, data)
    /\ observed' = (observed \/ cancelled)
    /\ IF procRet'.err # ErrNone
       THEN UNCHANGED <<allAttributions, okFiles>>
       ELSE /\ allAttributions' = allAttributions \o procRet'.attrs
            /\ okFiles' = Append(okFiles, idx)
    /\ idx' = idx + 1
    /\ pc' = "loop"
    /\ UNCHANGED <<filenames, cancelled, data, ret, startCancelled, reads,
                   det, attributions, deduped, resolverVars>>

\* A plausible slip: the batch returned without the test for an empty list.
FinishNoEmptyTest ==
    /\ pc = "loop"
    /\ idx > Len(filenames)
    /\ ret' = Return(Deduplicate(allAttributions), ErrNone)
    /\ pc' = "done"
    /\ UNCHANGED <<filenames, cancelled, idx, data, allAttributions, procRet,
                   startCancelled, observed, reads, okFiles, det, attributions, deduped, resolverVars>>

\* if len(allAttributions) == 0 { return nil, errors.New(...) }
\* return attribution.Deduplicate(allAttributions, logger), nil
Finish ==
    /\ pc = "loop"
    /\ idx > Len(filenames)
    /\ IF Len(allAttributions) = 0
       THEN ret' = ReturnNil(ErrNoAttributions)
       ELSE ret' = Return(Deduplicate(allAttributions), ErrNone)
    /\ pc' = "done"
    /\ UNCHANGED <<filenames, cancelled, idx, data, allAttributions, procRet,
                   startCancelled, observed, reads, okFiles, det, attributions, deduped, resolverVars>>

Next == Cancel \/ LoopCheck \/ ReadFile \/ ProcessFile \/ Finish

Spec == Init /\ [][Next]_vars

(***************************************************************************)
(* Deduplicate called on its own, then again on its own result.            *)
(***************************************************************************)
\* A1 and A2 share a purl, A2 having the more complete fields; A3 has the
\* name of A1 and no purl; the name of A4 is the purl of A1.
A1 == Attribution("a", NilPtr, NilPtr, PurlA)
A2 == Attribution("a2", Ptr("MIT"), Ptr("https://a.example"), PurlA)
A3 == Attribution("a", Ptr("MIT"), NilPtr, "")
A4 == Attribution(PurlA, NilPtr, NilPtr, "")
A5 == Attribution("b", Ptr(""), NilPtr, "")
AttrPool == {A1, A2, A3, A4, A5}

InitDedup ==
    /\ attributions \in SeqsUpTo(AttrPool, MaxLen)
    /\ deduped = <<>>
    /\ pc = "call"
    /\ filenames = <<>>
    /\ cancelled = FALSE
    /\ startCancelled = FALSE
    /\ idx = 1
    /\ data = InvalidJSON
    /\ allAttributions = <<>>
    /\ procRet = NotReturned
    /\ ret = NotReturned
    /\ observed = FALSE
    /\ reads = <<>>
    /\ okFiles = <<>>
    /\ det = NoDet
    /\ NoResolverCall

DedupCall ==
    /\ pc = "call"
    /\ deduped' = Deduplicate(attributions)
    /\ pc' = "once"
    /\ UNCHANGED <<filenames, cancelled, idx, data, allAttributions, procRet, ret,
                   startCancelled, observed, reads, okFiles, det, attributions, resolverVars>>

DedupAgain ==
    /\ pc = "once"
    /\ attributions' = deduped
    /\ deduped' = Deduplicate(deduped)
    /\ pc' = "twice"
    /\ UNCHANGED <<filenames, cancelled, idx, data, allAttributions, procRet, ret,
                   startCancelled, observed, reads, okFiles, det, resolverVars>>

NextDedup == DedupCall \/ DedupAgain

SpecDedup == InitDedup /\ [][NextDedup]_vars

(***************************************************************************)
(* Process called on its own, with a context cancelled or not beforehand.  *)
(***************************************************************************)
ProcPkgLists == SeqsUpTo({PkgA, PkgA2}, MaxPkgs)

ProcObjs ==
    { Obj(v, i, f, p, c) :
        v \in {JAbsent, JStr("SPDX-2.3"), JNum},
        i \in {JAbsent, JStr("SPDXRef-DOCUMENT")},
        f \in {JAbsent, JStr("CycloneDX"), JNum},
        p \in {NoList, NotAList} \cup {JArr(l) : l \in ProcPkgLists},
        c \in {NoList, NotAList} \cup {JArr(l) : l \in CompLists} }

\* The other keys of a top-level object that has an sbom key.
OuterObjs ==
    {EmptyObj,
     Obj(JStr("SPDX-2.3"), JAbsent, JAbsent, JArr(<<PkgB>>), NoList),
     Obj(JAbsent, JAbsent, JStr("CycloneDX"), NoList, JArr(<<CompB>>)),
     Obj(JAbsent, JAbsent, JNum, NoList, NoList)}

ProcData ==
    {InvalidJSON}
    \cup {Plain(o) : o \in ProcObjs}
    \cup {Wrapped(o, i) : o \in OuterObjs, i \in ProcObjs}
    \cup {WithSbomValue(v, o) : v \in {JNull, JStr("x")}, o \in ProcObjs}

InitProcess ==
    /\ data \in ProcData
    /\ cancelled \in BOOLEAN
    /\ startCancelled = cancelled
    /\ pc = "call"
    /\ procRet = NotReturned
    /\ filenames = <<>>
    /\ idx = 1
    /\ allAttributions = <<>>
    /\ ret = NotReturned
    /\ observed = FALSE
    /\ reads = <<>>
    /\ okFiles = <<>>
    /\ det = NoDet
    /\ attributions = <<>>
    /\ deduped = <<>>
    /\ NoResolverCall

ProcessCall ==
    /\ pc = "call"
    /\ procRet' = Process(cancelled, data)
    /\ observed' = cancelled
    /\ pc' = "returned"
    /\ UNCHANGED <<filenames, cancelled, idx, data, allAttributions, ret,
                   startCancelled, reads, okFiles, det, attributions, deduped, resolverVars>>

NextProcess == ProcessCall

SpecProcess == InitProcess /\ [][NextProcess]_vars

(***************************************************************************)
(* DetectFormat called on its own.                                         *)
(***************************************************************************)
MarkerObjs ==
    { Obj(v, i, f, NoList, NoList) :
        v \in {JAbsent, JNull, JNum, JStr(""), JStr("SPDX-2.3")},
        i \in {JAbsent, JNull, JNum, JStr(""), JStr("SPDXRef-DOCUMENT")},
        f \in {JAbsent, JNum, JStr("cyclonedx"), JStr("CycloneDX")} }

DetectData ==
    {InvalidJSON}
    \cup {Plain(o) : o \in MarkerObjs}
    \cup {Wrapped(o, i) : o \in MarkerObjs, i \in MarkerObjs}
    \cup {WithSbomValue(v, o) : v \in {JNull, JNum, JStr("x"), JArray}, o \in MarkerObjs}

InitDetect ==
    /\ data \in DetectData
    /\ det = NoDet
    /\ pc = "call"
    /\ cancelled = FALSE
    /\ startCancelled = FALSE
    /\ procRet = NotReturned
    /\ filenames = <<>>
    /\ idx = 1
    /\ allAttributions = <<>>
    /\ ret = NotReturned
    /\ observed = FALSE
    /\ reads = <<>>
    /\ okFiles = <<>>
    /\ attributions = <<>>
    /\ deduped = <<>>
    /\ NoResolverCall

DetectCall ==
    /\ pc = "call"
    /\ det' = DetectFormat(data)
    /\ pc' = "returned"
    /\ UNCHANGED <<filenames, cancelled, idx, data, allAttributions, procRet, ret,
                   startCancelled, observed, reads, okFiles, attributions, deduped, resolverVars>>

NextDetect == DetectCall

SpecDetect == InitDetect /\ [][NextDetect]_vars

(***************************************************************************)
(* Properties.                                                             *)
(***************************************************************************)
\* The key of an attribution as the documentation states it: the purl when
\* there is one, the name otherwise.
StatedKey(a) == IF a.Purl # "" THEN a.Purl ELSE a.Name

\* The indices of xs that are the first of their key.
FirstIdx(xs) == {i \in 1..Len(xs) : \A j \in 1..(i - 1) : StatedKey(xs[j]) # StatedKey(xs[i])}

\* The sub-list of xs at the indices of S from index i on, in the order of xs.
RECURSIVE SubListFrom(_, _, _)
SubListFrom(xs, S, i) ==
    IF i > Len(xs) THEN <<>>
    ELSE IF i \in S THEN <<xs[i]>> \o SubListFrom(xs, S, i + 1)
    ELSE SubListFrom(xs, S, i + 1)

FirstPerKey(xs) == SubListFrom(xs, FirstIdx(xs), 1)

\* C1: Deduplicate returns exactly the sub-list of the first attribution of
\* each key (purl if non-empty, else name), in the original order; a later
\* attribution of a seen key is dropped as it is, never merged.
C1_DedupKeepsFirstPerKey ==
    pc \in {"once", "twice"} => deduped = FirstPerKey(attributions)

\* C1 witness: a later duplicate with more complete fields was dropped.
C1_Witness ==
    /\ pc = "once"
    /\ Len(attributions) = 3
    /\ Len(deduped) = 2
    /\ \E i, j \in 1..3 :
          /\ i < j
          /\ StatedKey(attributions[i]) = StatedKey(attributions[j])
          /\ attributions[i].License = NilPtr
          /\ attributions[j].License # NilPtr
          /\ \A k \in 1..2 : deduped[k] # attributions[j]

\* C2: Deduplicate is idempotent: called on its own result, it returns that
\* result element for element.
C2_DedupIdempotent ==
    pc = "twice" => deduped = attributions

\* C2 witness: the second call ran on a result from which the first call
\* had dropped duplicates.
C2_Witness ==
    /\ pc = "twice"
    /\ Len(deduped) = 2
    /\ Len(attributions) = 2

\* The files of the batch whose read and Process both succeed, in order,
\* and the concatenation of their attributions.
Succeeds(f) == f.readable /\ Process(FALSE, f.bytes).err = ErrNone

RECURSIVE SuccessIdxFrom(_, _)
SuccessIdxFrom(fs, i) ==
    IF i > Len(fs) THEN <<>>
    ELSE IF Succeeds(fs[i]) THEN <<i>> \o SuccessIdxFrom(fs, i + 1)
    ELSE SuccessIdxFrom(fs, i + 1)

RECURSIVE ConcatFrom(_, _)
ConcatFrom(fs, i) ==
    IF i > Len(fs) THEN <<>>
    ELSE IF Succeeds(fs[i]) THEN Process(FALSE, fs[i].bytes).attrs \o ConcatFrom(fs, i + 1)
    ELSE ConcatFrom(fs, i + 1)

\* C3 as stated: with a context cancelled beforehand, ProcessFiles returns
\* the cancellation error and a nil list without reading any file, whatever
\* the list of inputs is.
C3_AlreadyCancelledAnyList ==
    (pc = "done" /\ startCancelled) =>
        (ret = ReturnNil(ErrCanceled) /\ reads = <<>> /\ procRet = NotReturned)

\* C3 amended: with a context cancelled beforehand and at least one input,
\* ProcessFiles returns the cancellation error and a nil list without
\* reading any file, also when valid inputs are present.
C3_AlreadyCancelledNonEmpty ==
    (pc = "done" /\ startCancelled /\ filenames # <<>>) =>
        (ret = ReturnNil(ErrCanceled) /\ reads = <<>> /\ procRet = NotReturned)

\* C3 witness: a cancelled call on two inputs that both hold attributions.
C3_Witness ==
    /\ pc = "done"
    /\ startCancelled
    /\ Len(filenames) = 2
    /\ Succeeds(filenames[1]) /\ Succeeds(filenames[2])
    /\ ConcatFrom(filenames, 1) # <<>>
    /\ ret.err = ErrCanceled

\* C4: whenever a cancellation check (the one of the loop or the one of
\* Process) saw the signal set, ProcessFiles returns the cancellation error
\* and a nil list, never a list and never another error.
C4_CancellationAlwaysPropagated ==
    (pc = "done" /\ observed) => ret = ReturnNil(ErrCanceled)

\* C5: without cancellation a failing file does not end the batch: every
\* file is read, in order, exactly the files that succeed contribute, and
\* when they yield an attribution the call returns Deduplicate of the
\* concatenation of their attributions in file order, with no error.
C5_FailuresDoNotAbort ==
    (pc = "done" /\ ~cancelled) =>
        /\ reads = [i \in 1..Len(filenames) |-> i]
        /\ okFiles = SuccessIdxFrom(filenames, 1)
        /\ (ConcatFrom(filenames, 1) # <<>> =>
               ret = Return(FirstPerKey(ConcatFrom(filenames, 1)), ErrNone))

\* C5 witness: a failing file followed by a file that yields attributions.
C5_Witness ==
    /\ pc = "done"
    /\ ~cancelled
    /\ Len(filenames) = 2
    /\ ~Succeeds(filenames[1])
    /\ Succeeds(filenames[2])
    /\ ret.err = ErrNone
    /\ Len(ret.attrs) = 2

\* C6 as stated: without cancellation ProcessFiles fails with the
\* no-attributions error exactly when no file was processed successfully.
C6_EmptyErrorIffNoSuccess ==
    (pc = "done" /\ ~cancelled) =>
        ((ret = ReturnNil(ErrNoAttributions)) <=> (okFiles = <<>>))

\* C6 amended: without cancellation ProcessFiles fails with the
\* no-attributions error (and a nil list) exactly when the successfully
\* processed files yielded no attribution at all, which includes the case
\* of no successful file.
C6_EmptyErrorIffNoAttribution ==
    (pc = "done" /\ ~cancelled) =>
        ((ret = ReturnNil(ErrNoAttributions)) <=> (ConcatFrom(filenames, 1) = <<>>))

\* C6 witness: a batch with a successfully processed file of zero packages
\* that fails with the no-attributions error.
C6_Witness ==
    /\ pc = "done"
    /\ ~cancelled
    /\ okFiles # <<>>
    /\ ret = ReturnNil(ErrNoAttributions)

\* Whether the object the detector classifies is an SPDX or CycloneDX
\* document.
IsDocument(bytes) == DetectFormat(bytes).err = ErrNone

\* C7: Process on {"sbom": D} returns what Process returns on D, for every
\* SPDX or CycloneDX document D.
C7_EnvelopeTransparent ==
    (pc = "returned" /\ ~cancelled /\ data.sbom.t = "object" /\ data.outer = EmptyObj
        /\ IsDocument(Plain(data.inner))) =>
        procRet = Process(FALSE, Plain(data.inner))

\* C8: DetectFormat answers "spdx" when the working object has the key
\* spdxVersion (any value) or a non-empty string SPDXID, otherwise
\* "cyclonedx" when bomFormat is the string "CycloneDX", otherwise the
\* unknown-format error; with markers of both kinds the answer is "spdx".
C8_DetectClassification ==
    (pc = "returned" /\ data.json = "object") =>
        LET w == IF data.sbom = JObj THEN data.inner ELSE data.outer
            spdx == \/ w.spdxVersion # JAbsent
                    \/ (w.SPDXID.t = "string" /\ w.SPDXID.s # "")
            cdx == w.bomFormat = JStr("CycloneDX")
        IN  /\ spdx => det = [format |-> "spdx", err |-> ErrNone]
            /\ (~spdx /\ cdx) => det = [format |-> "cyclonedx", err |-> ErrNone]
            /\ (~spdx /\ ~cdx) => det = [format |-> "", err |-> ErrUnknownFormat]

\* C8 witness: an object with the markers of both formats, classified.
C8_Witness ==
    /\ pc = "returned"
    /\ data.sbom = JAbsent
    /\ data.outer.spdxVersion = JAbsent
    /\ data.outer.SPDXID = JStr("SPDXRef-DOCUMENT")
    /\ data.outer.bomFormat = JStr("CycloneDX")
    /\ det.format = "spdx"

\* C9 (data holds the bytes Process was last called on): Process returns the list of its resolver as it is, one attribution
\* per package of the parsed document, same-key packages included, while
\* ProcessFiles on that document alone returns only the first of each key;
\* when detection or parsing fails Process returns an error and a nil list.
C9_ProcessVerbatim ==
    (pc \in {"loop", "done"} /\ procRet # NotReturned /\ ~observed) =>
        LET bytes == data
            pkgs == IF DetectFormat(bytes).format = "spdx"
                    THEN SpdxParseSBOM(bytes).doc.Packages
                    ELSE CdxParseSBOM(bytes).bom.Components
        IN  /\ procRet.err = ErrNone =>
                /\ ~procRet.isNil
                /\ Len(procRet.attrs) = Len(pkgs)
                /\ \A i \in 1..Len(pkgs) :
                      /\ procRet.attrs[i].Name = pkgs[i].Name
                      /\ procRet.attrs[i] =
                            IF DetectFormat(bytes).format = "spdx"
                            THEN SpdxAttribution(pkgs[i]) ELSE CdxAttribution(pkgs[i])
                /\ (pc = "done" /\ Len(filenames) = 1 /\ procRet.attrs # <<>>) =>
                      ret = Return(FirstPerKey(procRet.attrs), ErrNone)
            /\ procRet.err # ErrNone =>
                /\ procRet.isNil
                /\ procRet.attrs = <<>>
                /\ (DetectFormat(bytes).err # ErrNone
                      \/ SpdxParseSBOM(bytes).err # ErrNone
                      \/ CdxParseSBOM(bytes).err # ErrNone)

\* C9 witness: one document with two packages of one key; Process returned
\* both and ProcessFiles only the first.
C9_Witness ==
    /\ pc = "done"
    /\ Len(filenames) = 1
    /\ Len(procRet.attrs) = 2
    /\ StatedKey(procRet.attrs[1]) = StatedKey(procRet.attrs[2])
    /\ ret = Return(<<procRet.attrs[1]>>, ErrNone)

\* C10: Process called with a context cancelled beforehand returns the
\* cancellation error and a nil list whatever the input is, malformed and
\* unrecognized data included.
C10_ProcessAlreadyCancelled ==
    (pc = "returned" /\ startCancelled) => procRet = ReturnNil(ErrCanceled)

\* C10 witness: a cancelled call on data whose format cannot be detected.
C10_Witness ==
    /\ pc = "returned"
    /\ startCancelled
    /\ DetectFormat(data).err # ErrNone
    /\ procRet.err = ErrCanceled

(***************************************************************************)
(* PurlToURL called on its own.                                            *)
(***************************************************************************)
\* The state of the batch, detector and deduplicator variables in a run
\* that does not use them.
NoBatchCall ==
    /\ filenames = <<>>
    /\ cancelled = FALSE
    /\ startCancelled = FALSE
    /\ idx = 1
    /\ data = InvalidJSON
    /\ allAttributions = <<>>
    /\ procRet = NotReturned
    /\ ret = NotReturned
    /\ observed = FALSE
    /\ reads = <<>>
    /\ okFiles = <<>>
    /\ det = NoDet
    /\ attributions = <<>>
    /\ deduped = <<>>

batchVars == <<filenames, cancelled, startCancelled, idx, data, allAttributions, procRet, ret,
               observed, reads, okFiles, det, attributions, deduped>>

PurlStrings ==
    {PurlString(p) : p \in KnownPurls} \cup {"", " ", "  ", "not-a-valid-purl", "pkg:", " pkg:npm/a@1"}

InitPurl ==
    /\ purlString \in PurlStrings
    /\ purlRet = NoURL
    /\ doc = <<>>
    /\ bom = <<>>
    /\ extracted = NotExtracted
    /\ sink = {}
    /\ calls = <<>>
    /\ cli = NoCli
    /\ parseErr = ""
    /\ pc = "call"
    /\ NoBatchCall

PurlCall ==
    /\ pc = "call"
    /\ purlRet' = PurlToURL(purlString)
    /\ pc' = "returned"
    /\ UNCHANGED <<batchVars, purlString, doc, bom, extracted, parseErr, cli, calls, sink>>

NextPurl == PurlCall

SpecPurl == InitPurl /\ [][NextPurl]_vars

\* The mapping table of the documentation and the fixtures of
\* TestPurlToURL_OtherPackageTypes: the URL of a purl of a supported type.
TableURL(t, ns, n, v) ==
    CASE t = "cargo" -> "https://crates.io/crates/" \o n \o "/" \o v
      [] t = "composer" -> "https://packagist.org/packages/" \o ns \o "/" \o n \o "#" \o v
      [] t = "gem" -> "https://rubygems.org/gems/" \o n \o "/versions/" \o v
      [] t = "golang" -> IF ns = "" THEN "https://pkg.go.dev/" \o n
                         ELSE "https://pkg.go.dev/" \o ns \o "/" \o n
      [] t = "maven" -> "https://central.sonatype.com/artifact/" \o ns \o "/" \o n \o "/" \o v
      [] t = "npm" -> IF ns = "" THEN "https://www.npmjs.com/package/" \o n \o "/v/" \o v
                      ELSE "https://www.npmjs.com/package/" \o ns \o "/" \o n \o "/v/" \o v
      [] t = "nuget" -> "https://www.nuget.org/packages/" \o n \o "/" \o v
      [] t = "pub" -> "https://pub.dev/packages/" \o n \o "/versions/" \o v
      [] t = "pypi" -> "https://pypi.org/project/" \o n \o "/" \o v \o "/"
      [] t = "github" -> "https://github.com/" \o ns \o "/" \o n \o "/tree/" \o v
      [] t \in {"docker", "oci"} -> IF ns \in {"", "library"} THEN "https://hub.docker.com/_/" \o n
                                    ELSE "https://hub.docker.com/r/" \o ns \o "/" \o n
      [] t = "deb" -> "https://packages.debian.org/" \o n
      [] t = "rpm" -> "https://rpmfind.net/linux/rpm2html/search.php?query=" \o n
      [] t = "apk" -> "https://pkgs.alpinelinux.org/packages?name=" \o n
      [] t = "hex" -> "https://hex.pm/packages/" \o n \o "/" \o v
      [] t = "cocoapods" -> "https://cocoapods.org/pods/" \o n
      [] t = "conda" -> IF ns = "" THEN "https://anaconda.org/anaconda/" \o n
                        ELSE "https://anaconda.org/" \o ns \o "/" \o n
      [] t = "bitbucket" -> "https://bitbucket.org/" \o ns \o "/" \o n \o "/src/" \o v

SupportedTypes ==
    {"cargo", "composer", "gem", "golang", "maven", "npm", "nuget", "pub", "pypi", "github",
     "docker", "oci", "deb", "rpm", "apk", "hex", "cocoapods", "conda", "bitbucket"}

\* C11: for a parsed purl of a supported type PurlToURL returns exactly the
\* URL of the mapping table for its type, with the namespace, name and
\* version of the purl put in literally, and no error.
C11_SupportedTypeTemplate ==
    (pc = "returned" /\ \E p \in KnownPurls : PurlString(p) = purlString /\ p.type \in SupportedTypes) =>
        \A p \in KnownPurls :
            PurlString(p) = purlString =>
                purlRet = [url |-> <<TableURL(p.type, p.namespace, p.name, p.version)>>, err |-> ""]

\* C11 witness: a Maven purl with a namespace, mapped.
C11_Witness ==
    /\ pc = "returned"
    /\ purlString = "pkg:maven/org/a@2"
    /\ purlRet.url = <<"https://central.sonatype.com/artifact/org/a/2">>

\* C12: an empty or whitespace-only string fails with ErrEmptyPurl, a
\* string that is not a purl with an error that is neither sentinel, a purl
\* of a type outside the supported set with ErrUnsupportedPurlType; and
\* exactly one of the URL and the error is non-nil.
C12_FailuresDisjoint ==
    pc = "returned" =>
        LET blank == purlString \in {"", " ", "  "}
            parses == \E p \in KnownPurls : PurlString(p) = purlString
            unsupported == \E p \in KnownPurls :
                              PurlString(p) = purlString /\ p.type \notin SupportedTypes
        IN  /\ blank => purlRet = [url |-> <<>>, err |-> "empty purl string"]
            /\ (~blank /\ ~parses) =>
                  /\ purlRet.url = <<>>
                  /\ purlRet.err \notin {"", "empty purl string", "unsupported purl type"}
            /\ unsupported => purlRet = [url |-> <<>>, err |-> "unsupported purl type"]
            /\ (purlRet.err # "") => (blank \/ ~parses \/ unsupported)
            /\ (purlRet.url = <<>>) <=> (purlRet.err # "")

\* C12 witness: a purl of a type that is recognized but not mapped.
C12_Witness ==
    /\ pc = "returned"
    /\ purlString = "pkg:mlflow/a@1"
    /\ purlRet.err = ErrUnsupportedPurlType


\* ---------------------------------------------------------------------
\* The two resolvers called directly on a parsed document, and Process
\* called on the bytes of the same document.

HomepageValues == {"", "NONE", "NOASSERTION", "https://a.example"}
ConcludedValues == {"", "NOASSERTION", "NONE", "Apache-2.0"}
DeclaredValues == {"", "NOASSERTION", "MIT"}

SpdxRefPool ==
    {ExternalRef("purl", "pkg:npm/a@1"), ExternalRef("purl", "pkg:maven/org/a@2"),
     ExternalRef("purl", "pkg:mlflow/a@1"), ExternalRef("purl", "not-a-valid-purl"),
     ExternalRef("purl", ""), ExternalRef("other", "x")}

\* Every package of the pools, alone in its document.
SinglePackages ==
    {Package("a", h, c, d, refs) :
        h \in HomepageValues, c \in ConcludedValues, d \in DeclaredValues,
        refs \in SeqsUpTo(SpdxRefPool, MaxRefs)}

\* A package with no name and a purl that maps to nothing.
PkgE == Package("", "", "", "", <<ExternalRef("purl", "pkg:mlflow/a@1")>>)

DocumentOf(pkgs) == [Packages |-> pkgs, PackagesNil |-> FALSE]

DocPtrs ==
    {<<>>, <<ZeroDocument>>}
        \cup {<<DocumentOf(<<pkg>>)>> : pkg \in SinglePackages}
        \cup {<<DocumentOf(pkgs)>> : pkgs \in SeqsUpTo(SpdxPkgs \cup {PkgE}, MaxPkgs)}

LicenseChoicePool ==
    {LicenseChoice(<<>>)}
        \cup {LicenseChoice(<<License(id, n, e)>>) :
                 id \in {"", "MIT"}, n \in {"", "MIT License"}, e \in {"", "MIT OR Apache-2.0"}}

CdxRefPool ==
    {ExternalReference("website", ""), ExternalReference("website", "https://w.example"),
     ExternalReference("distribution", "https://d.example"),
     ExternalReference("documentation", "https://doc.example"),
     ExternalReference("vcs", "https://v.example"), ExternalReference("other", "https://o.example")}

ComponentPurls == {"", "pkg:npm/a@1", "pkg:mlflow/a@1", "not-a-valid-purl"}

SingleComponents ==
    {Component("a", p, l, <<>>) :
        p \in ComponentPurls,
        l \in {<<>>} \cup {<<ls>> : ls \in SeqsUpTo(LicenseChoicePool, MaxLicenses)}}
        \cup {Component("a", p, <<>>, refs) :
                 p \in ComponentPurls, refs \in SeqsUpTo(CdxRefPool, MaxRefs)}

\* A component with no name and a purl that does not parse.
CompE == Component("", "not-a-valid-purl", <<>>, <<>>)

BOMOf(comps) == [Components |-> comps, ComponentsNil |-> FALSE]

BomPtrs ==
    {<<>>, <<ZeroBOM>>}
        \cup {<<BOMOf(<<c>>)>> : c \in SingleComponents}
        \cup {<<BOMOf(comps)>> : comps \in SeqsUpTo(Components \cup {CompE}, MaxPkgs)}

\* The bytes of a document: what ParseSBOM reads the document back from.
SpdxBytes(docPtr) ==
    IF docPtr = <<>> THEN InvalidJSON
    ELSE Plain(Obj(JStr("SPDX-2.3"), JStr("SPDXRef-DOCUMENT"), JAbsent,
                   IF docPtr[1].PackagesNil THEN NoList ELSE JArr(docPtr[1].Packages), NoList))

CdxBytes(bomPtr) ==
    IF bomPtr = <<>> THEN InvalidJSON
    ELSE Plain(Obj(JAbsent, JAbsent, JStr("CycloneDX"), NoList,
                   IF bomPtr[1].ComponentsNil THEN NoList ELSE JArr(bomPtr[1].Components)))

InitExtract ==
    /\ \/ /\ doc \in DocPtrs
          /\ bom = <<>>
          /\ data = SpdxBytes(doc)
          /\ pc = "spdx"
       \/ /\ bom \in BomPtrs
          /\ doc = <<>>
          /\ data = CdxBytes(bom)
          /\ pc = "cyclonedx"
    /\ filenames = <<>>
    /\ cancelled = FALSE
    /\ idx = 1
    /\ allAttributions = <<>>
    /\ procRet = NotReturned
    /\ ret = NotReturned
    /\ startCancelled = FALSE
    /\ observed = FALSE
    /\ reads = <<>>
    /\ okFiles = <<>>
    /\ det = NoDet
    /\ attributions = <<>>
    /\ deduped = <<>>
    /\ purlString = ""
    /\ purlRet = NoURL
    /\ extracted = NotExtracted
    /\ sink = {}
    /\ calls = <<>>
    /\ cli = NoCli
    /\ parseErr = ""

extractFrame ==
    <<filenames, cancelled, idx, allAttributions, ret, startCancelled, observed, reads,
      okFiles, det, attributions, deduped, purlString, purlRet, doc, bom, data, parseErr, cli, calls, sink>>

\* spdxextract.ExtractPackages(doc, nil)
SpdxExtractCall ==
    /\ pc = "spdx"
    /\ extracted' = SpdxExtractPackagesOf(doc)
    /\ pc' = "spdx-extracted"
    /\ UNCHANGED <<extractFrame, procRet>>

\* cyclonedxextract.ExtractPackages(bom, nil)
CdxExtractCall ==
    /\ pc = "cyclonedx"
    /\ extracted' = CdxExtractPackagesOf(bom)
    /\ pc' = "cyclonedx-extracted"
    /\ UNCHANGED <<extractFrame, procRet>>

\* sbomattr.Process on the bytes of the document, the context not cancelled.
ProcessDocument ==
    /\ pc \in {"spdx", "cyclonedx"}
    /\ data.json = "object"
    /\ procRet' = Process(FALSE, data)
    /\ pc' = IF pc = "spdx" THEN "spdx-processed" ELSE "cyclonedx-processed"
    /\ UNCHANGED <<extractFrame, extracted>>

NextExtract == SpdxExtractCall \/ CdxExtractCall \/ ProcessDocument

SpecExtract == InitExtract /\ [][NextExtract]_vars

\* The packages of the SPDX document, none for a nil document.
DocPackages == IF doc = <<>> THEN <<>> ELSE doc[1].Packages
\* The components of the CycloneDX BOM, none for a nil BOM.
BomComponents == IF bom = <<>> THEN <<>> ELSE bom[1].Components


\* C13: the license of an SPDX package is its concluded license unless
\* that is empty or "NOASSERTION", and then its declared license, whatever
\* the declared license is.
C13_SpdxLicenseSelection ==
    pc = "spdx-extracted" =>
        /\ Len(extracted.attrs) = Len(DocPackages)
        /\ \A i \in 1..Len(DocPackages) :
              LET pkg == DocPackages[i]
              IN  extracted.attrs[i].License =
                      IF pkg.LicenseConcluded \in {"", "NOASSERTION"}
                      THEN <<pkg.LicenseDeclared>>
                      ELSE <<pkg.LicenseConcluded>>

\* C13 witness: a concluded license of "NOASSERTION" replaced by the
\* declared license.
C13_Witness ==
    /\ pc = "spdx-extracted"
    /\ Len(DocPackages) = 1
    /\ DocPackages[1].LicenseConcluded = "NOASSERTION"
    /\ DocPackages[1].LicenseDeclared = "MIT"
    /\ extracted.attrs[1].License = <<"MIT">>


\* C14: the URL of an SPDX package is its homepage unless that is empty,
\* "NONE" or "NOASSERTION"; then the URL PurlToURL maps the package's
\* non-empty purl to, when it maps it; and absent otherwise.  Extraction
\* returns a list for every document, so no failure of the mapper surfaces.
C14_SpdxURLSelection ==
    pc = "spdx-extracted" =>
        /\ ~extracted.isNil
        /\ Len(extracted.attrs) = Len(DocPackages)
        /\ \A i \in 1..Len(DocPackages) :
              LET pkg == DocPackages[i]
                  a == extracted.attrs[i]
              IN  IF pkg.Homepage \notin {"", "NONE", "NOASSERTION"}
                  THEN a.URL = <<pkg.Homepage>>
                  ELSE IF a.Purl # "" /\ PurlToURL(a.Purl).err = ""
                  THEN a.URL = PurlToURL(a.Purl).url /\ a.URL # <<>>
                  ELSE a.URL = <<>>

\* C14 witness: a homepage of "NONE" and a purl the mapper knows.
C14_Witness ==
    /\ pc = "spdx-extracted"
    /\ Len(DocPackages) = 1
    /\ DocPackages[1].Homepage = "NONE"
    /\ extracted.attrs[1].Purl = "pkg:npm/a@1"
    /\ extracted.attrs[1].URL = <<"https://www.npmjs.com/package/a/v/1">>

\* C14, the failing mapper: a homepage of "NOASSERTION" and a purl that
\* does not parse leave the URL absent.
C14_WitnessMapperFails ==
    /\ pc = "spdx-extracted"
    /\ Len(DocPackages) = 1
    /\ DocPackages[1].Homepage = "NOASSERTION"
    /\ extracted.attrs[1].Purl = "not-a-valid-purl"
    /\ extracted.attrs[1].URL = <<>>

\* C15: the purl of an SPDX package is the locator of the first external
\* reference of type "purl" in document order, and empty when there is none.
C15_SpdxFirstPurlRef ==
    pc = "spdx-extracted" =>
        /\ Len(extracted.attrs) = Len(DocPackages)
        /\ \A i \in 1..Len(DocPackages) :
              LET refs == DocPackages[i].ExternalRefs
                  purlRefs == {k \in 1..Len(refs) : refs[k].ReferenceType = "purl"}
              IN  IF purlRefs = {}
                  THEN extracted.attrs[i].Purl = ""
                  ELSE \E k \in purlRefs :
                          /\ \A j \in purlRefs : k <= j
                          /\ extracted.attrs[i].Purl = refs[k].ReferenceLocator

\* C15 witness: a reference of another type, then two purl references, the
\* first of the two taken.
C15_Witness ==
    /\ pc = "spdx-extracted"
    /\ Len(DocPackages) = 1
    /\ DocPackages[1].ExternalRefs =
           <<ExternalRef("other", "x"), ExternalRef("purl", "pkg:maven/org/a@2"),
             ExternalRef("purl", "pkg:npm/a@1")>>
    /\ extracted.attrs[1].Purl = "pkg:maven/org/a@2"


\* The licenses list of a component: none when the list is missing.
LicenseList(component) == IF component.Licenses = <<>> THEN <<>> ELSE component.Licenses[1]

\* C16: the license of a CycloneDX component comes from the first entry of
\* its licenses list alone: with a license object there, its expression if
\* non-empty, else its id if non-empty, else its name if non-empty, else
\* absent; absent too when the list is missing or empty or the first entry
\* has no license object, whatever later entries carry.
C16_CdxFirstLicenseEntry ==
    pc = "cyclonedx-extracted" =>
        /\ Len(extracted.attrs) = Len(BomComponents)
        /\ \A i \in 1..Len(BomComponents) :
              LET ls == LicenseList(BomComponents[i])
                  a == extracted.attrs[i]
              IN  IF ls = <<>> \/ ls[1].License = <<>>
                  THEN a.License = <<>>
                  ELSE LET l == ls[1].License[1]
                       IN  /\ l.Expression # "" => a.License = <<l.Expression>>
                           /\ (l.Expression = "" /\ l.ID # "") => a.License = <<l.ID>>
                           /\ (l.Expression = "" /\ l.ID = "" /\ l.Name # "") =>
                                  a.License = <<l.Name>>
                           /\ (l.Expression = "" /\ l.ID = "" /\ l.Name = "") =>
                                  a.License = <<>>

\* C16 witness: a first entry with an expression and an id, the expression
\* taken.
C16_Witness ==
    /\ pc = "cyclonedx-extracted"
    /\ Len(BomComponents) = 1
    /\ LicenseList(BomComponents[1]) # <<>>
    /\ LicenseList(BomComponents[1])[1] = LicenseChoice(<<License("MIT", "", "MIT OR Apache-2.0")>>)
    /\ extracted.attrs[1].License = <<"MIT OR Apache-2.0">>

\* C16, later entries: a first entry without a license object, a second
\* with one, and no license.
C16_WitnessLaterEntryIgnored ==
    /\ pc = "cyclonedx-extracted"
    /\ Len(BomComponents) = 1
    /\ LicenseList(BomComponents[1]) =
           <<LicenseChoice(<<>>), LicenseChoice(<<License("MIT", "", "")>>)>>
    /\ extracted.attrs[1].License = <<>>

\* The positions of the references of one type that carry a URL.
RefsOfType(refs, type) == {k \in 1..Len(refs) : refs[k].Type = type /\ refs[k].URL # ""}

\* The reference type that wins: the first of website, distribution,
\* documentation and vcs that a reference with a URL has; "" when none has.
WinningType(refs) ==
    IF RefsOfType(refs, "website") # {} THEN "website"
    ELSE IF RefsOfType(refs, "distribution") # {} THEN "distribution"
    ELSE IF RefsOfType(refs, "documentation") # {} THEN "documentation"
    ELSE IF RefsOfType(refs, "vcs") # {} THEN "vcs"
    ELSE ""

\* C17: the URL of a CycloneDX component is the URL of the first reference
\* of the winning type, wherever the references stand in the document; with
\* no qualifying reference it is the URL PurlToURL maps the non-empty purl
\* to, when it maps it, and absent otherwise.
C17_CdxURLPriority ==
    pc = "cyclonedx-extracted" =>
        /\ Len(extracted.attrs) = Len(BomComponents)
        /\ \A i \in 1..Len(BomComponents) :
              LET component == BomComponents[i]
                  refs == component.ExternalReferences
                  a == extracted.attrs[i]
                  wins == RefsOfType(refs, WinningType(refs))
              IN  IF WinningType(refs) # ""
                  THEN \E k \in wins :
                          /\ \A j \in wins : k <= j
                          /\ a.URL = <<refs[k].URL>>
                  ELSE IF component.Purl # "" /\ PurlToURL(component.Purl).err = ""
                  THEN a.URL = PurlToURL(component.Purl).url /\ a.URL # <<>>
                  ELSE a.URL = <<>>

\* C17 witness: a vcs reference, a website reference without a URL and a
\* distribution reference, in that order: the distribution URL wins.
C17_Witness ==
    /\ pc = "cyclonedx-extracted"
    /\ Len(BomComponents) = 1
    /\ BomComponents[1].ExternalReferences =
           <<ExternalReference("vcs", "https://v.example"), ExternalReference("website", ""),
             ExternalReference("distribution", "https://d.example")>>
    /\ extracted.attrs[1].URL = <<"https://d.example">>

\* C17, the fallback: a reference of another type only, and the purl mapped.
C17_WitnessPurlFallback ==
    /\ pc = "cyclonedx-extracted"
    /\ Len(BomComponents) = 1
    /\ BomComponents[1].ExternalReferences = <<ExternalReference("other", "https://o.example")>>
    /\ BomComponents[1].Purl = "pkg:npm/a@1"
    /\ extracted.attrs[1].URL = <<"https://www.npmjs.com/package/a/v/1">>


\* C18: every attribution of either resolver has a license and a URL that
\* are absent or a non-empty string: a present value is never "".
C18_PresentNeverEmpty ==
    pc \in {"spdx-extracted", "cyclonedx-extracted"} =>
        \A i \in 1..Len(extracted.attrs) :
            /\ extracted.attrs[i].License # <<"">>
            /\ extracted.attrs[i].URL # <<"">>

\* C18, what the resolvers do keep: a present URL is never "", and a present
\* license of a CycloneDX component is never "".
C18_PresentURLNeverEmpty ==
    /\ pc \in {"spdx-extracted", "cyclonedx-extracted"} =>
          \A i \in 1..Len(extracted.attrs) : extracted.attrs[i].URL # <<"">>
    /\ pc = "cyclonedx-extracted" =>
          \A i \in 1..Len(extracted.attrs) : extracted.attrs[i].License # <<"">>

\* C18, the state that breaks it: an SPDX package with neither a concluded
\* nor a declared license, its license present and empty.
C18_EmptyLicensePresent ==
    /\ pc = "spdx-extracted"
    /\ Len(DocPackages) = 1
    /\ DocPackages[1].LicenseConcluded = ""
    /\ DocPackages[1].LicenseDeclared = ""
    /\ extracted.attrs[1].License = <<"">>


\* C19: each resolver returns one attribution per package or component, in
\* input order: the list has the length of the input, entry i has the name
\* (and for CycloneDX the purl) of input i verbatim and is what the resolver
\* makes of input i alone.
C19_OnePerPackageInOrder ==
    /\ pc = "spdx-extracted" =>
          /\ Len(extracted.attrs) = Len(DocPackages)
          /\ \A i \in 1..Len(DocPackages) :
                /\ extracted.attrs[i].Name = DocPackages[i].Name
                /\ LET alone == SpdxExtractPackagesOf(<<DocumentOf(<<DocPackages[i]>>)>>).attrs
                   IN  Len(alone) = 1 /\ extracted.attrs[i] = alone[1]
    /\ pc = "cyclonedx-extracted" =>
          /\ Len(extracted.attrs) = Len(BomComponents)
          /\ \A i \in 1..Len(BomComponents) :
                /\ extracted.attrs[i].Name = BomComponents[i].Name
                /\ extracted.attrs[i].Purl = BomComponents[i].Purl
                /\ LET alone == CdxExtractPackagesOf(<<BOMOf(<<BomComponents[i]>>)>>).attrs
                   IN  Len(alone) = 1 /\ extracted.attrs[i] = alone[1]

\* C19 witness: a package with no name and an unmappable purl, then a named
\* one, both kept in that order.
C19_Witness ==
    /\ pc = "spdx-extracted"
    /\ DocPackages = <<PkgE, PkgA>>
    /\ Len(extracted.attrs) = 2
    /\ extracted.attrs[1].Name = ""
    /\ extracted.attrs[1].URL = <<>>
    /\ extracted.attrs[2].Name = "a"

\* C19, CycloneDX: a component with a license, then one with no name, no
\* license and a purl that does not parse.
C19_WitnessCdx ==
    /\ pc = "cyclonedx-extracted"
    /\ BomComponents = <<CompB, CompE>>
    /\ Len(extracted.attrs) = 2
    /\ extracted.attrs[1].Name = "b"
    /\ extracted.attrs[2] = Attribution("", <<>>, <<>>, "not-a-valid-purl")

\* A document without packages: nil, without a list, or with an empty list.
NoPackages ==
    IF pc \in {"spdx", "spdx-extracted", "spdx-processed"}
    THEN doc = <<>> \/ doc[1].PackagesNil \/ doc[1].Packages = <<>>
    ELSE bom = <<>> \/ bom[1].ComponentsNil \/ bom[1].Components = <<>>

\* C20: on a document without packages or components each resolver returns
\* an empty list that is not nil, and Process on the bytes of such a
\* document returns the empty, non-nil list with a nil error.
C20_EmptyListNeverNil ==
    /\ (pc \in {"spdx-extracted", "cyclonedx-extracted"} /\ NoPackages) =>
          /\ extracted.attrs = <<>>
          /\ ~extracted.isNil
    /\ (pc \in {"spdx-processed", "cyclonedx-processed"} /\ NoPackages) =>
          /\ procRet.attrs = <<>>
          /\ ~procRet.isNil
          /\ procRet.err = ""

\* C20 witness: the resolver called on a nil SPDX document.
C20_Witness ==
    /\ pc = "spdx-extracted"
    /\ doc = <<>>
    /\ extracted = [attrs |-> <<>>, isNil |-> FALSE]

\* C20, Process: a CycloneDX document without a components key.
C20_WitnessProcess ==
    /\ pc = "cyclonedx-processed"
    /\ bom = <<ZeroBOM>>
    /\ procRet = [attrs |-> <<>>, isNil |-> FALSE, err |-> ""]


\* ---------------------------------------------------------------------
\* The two ParseSBOM called directly on the bytes of a file.

ParseObjs ==
    { Obj(v, i, f, p, c) :
        v \in {JAbsent, JNull, JNum, JStr("SPDX-2.3")},
        i \in {JAbsent, JNum},
        f \in {JAbsent, JNum, JStr("CycloneDX")},
        p \in {NoList, NotAList, NullList, JArr(<<>>), JArr(<<PkgA>>)},
        c \in {NoList, NotAList, NullList, JArr(<<CompA>>)} }

ParseData ==
    {InvalidJSON}
    \cup {Plain(o) : o \in ParseObjs}
    \cup {Wrapped(o, i) : o \in {EmptyObj, Obj(JNum, JAbsent, JNum, NotAList, NotAList)},
                          i \in ParseObjs}
    \cup {WithSbomValue(v, o) : v \in {JNull, JNum, JStr("x"), JArray}, o \in ParseObjs}

InitParse ==
    /\ data \in ParseData
    /\ pc = "call"
    /\ doc = <<>>
    /\ bom = <<>>
    /\ parseErr = ""
    /\ filenames = <<>>
    /\ cancelled = FALSE
    /\ idx = 1
    /\ allAttributions = <<>>
    /\ procRet = NotReturned
    /\ ret = NotReturned
    /\ startCancelled = FALSE
    /\ observed = FALSE
    /\ reads = <<>>
    /\ okFiles = <<>>
    /\ det = NoDet
    /\ attributions = <<>>
    /\ deduped = <<>>
    /\ purlString = ""
    /\ purlRet = NoURL
    /\ extracted = NotExtracted
    /\ sink = {}
    /\ calls = <<>>
    /\ cli = NoCli

parseFrame ==
    <<filenames, cancelled, idx, data, allAttributions, procRet, ret, startCancelled, observed,
      reads, okFiles, det, attributions, deduped, purlString, purlRet, extracted, cli, calls, sink>>

\* spdxextract.ParseSBOM(data)
SpdxParseCall ==
    /\ pc = "call"
    /\ doc' = SpdxParse(data).doc
    /\ parseErr' = SpdxParse(data).err
    /\ pc' = "spdx-parsed"
    /\ UNCHANGED <<parseFrame, bom>>

\* cyclonedxextract.ParseSBOM(data)
CdxParseCall ==
    /\ pc = "call"
    /\ bom' = CdxParse(data).bom
    /\ parseErr' = CdxParse(data).err
    /\ pc' = "cyclonedx-parsed"
    /\ UNCHANGED <<parseFrame, doc>>

NextParse == SpdxParseCall \/ CdxParseCall

SpecParse == InitParse /\ [][NextParse]_vars

\* The JSON value the SPDX parser decodes as the document: the value of the
\* sbom key when there is one, else the top-level object.
SpdxDecodedType == IF data.sbom.t = "absent" THEN "object" ELSE data.sbom.t
SpdxDecodedObject == IF data.sbom.t = "absent" THEN data.outer ELSE data.inner

\* A present field of a JSON object that its field of the Go struct cannot
\* hold: a string field given a number, a list field given a string.
SpdxFieldMisfit(o) ==
    \/ o.spdxVersion.t \notin {"absent", "null", "string"}
    \/ o.SPDXID.t \notin {"absent", "null", "string"}
    \/ o.packages.t \notin {"absent", "null", "array"}
CdxFieldMisfit(o) ==
    \/ o.bomFormat.t \notin {"absent", "null", "string"}
    \/ o.components.t \notin {"absent", "null", "array"}

C21_WitnessMisfit ==
    /\ pc = "spdx-parsed"
    /\ data.json = "object"
    /\ data.sbom.t = "absent"
    /\ data.outer.packages = NotAList
    /\ parseErr # ""
    /\ doc = <<>>


\* ---------------------------------------------------------------------
\* The command: run on a command line, with a stdout that works or not.

GoodFile == Readable(Plain(SpdxObj(<<PkgA>>)))
BadFile == Readable(InvalidJSON)
EmptyDocFile == Readable(Plain(SpdxObj(<<>>)))

CliPaths ==
    {MissingPath, UnreadableDirectory, Directory(<<>>),
     Directory(<<DirEntry(TRUE, TRUE, Unreadable), DirEntry(FALSE, FALSE, GoodFile),
                 DirEntry(FALSE, TRUE, GoodFile)>>),
     Directory(<<DirEntry(FALSE, FALSE, GoodFile)>>),
     Directory(<<DirEntry(FALSE, TRUE, BadFile)>>),
     RegularFile(GoodFile), RegularFile(BadFile), RegularFile(EmptyDocFile),
     RegularFile(Unreadable)}

InitCli ==
    /\ \E flags \in {"ok", "bad"}, showVersion, stdoutFails, spills \in BOOLEAN,
          args \in SeqsUpTo(CliPaths, MaxArgs) :
          cli = [NoCli EXCEPT !.flags = flags, !.showVersion = showVersion, !.args = args,
                              !.stdoutFails = stdoutFails, !.spills = spills]
    /\ pc = "flags"
    /\ filenames = <<>>
    /\ ret = NotReturned
    /\ cancelled = FALSE
    /\ startCancelled = FALSE
    /\ idx = 1
    /\ data = InvalidJSON
    /\ allAttributions = <<>>
    /\ procRet = NotReturned
    /\ observed = FALSE
    /\ reads = <<>>
    /\ okFiles = <<>>
    /\ det = NoDet
    /\ attributions = <<>>
    /\ deduped = <<>>
    /\ purlString = ""
    /\ purlRet = NoURL
    /\ doc = <<>>
    /\ bom = <<>>
    /\ parseErr = ""
    /\ extracted = NotExtracted
    /\ sink = {}
    /\ calls = <<>>

cliFrame ==
    <<cancelled, startCancelled, idx, data, allAttributions, procRet, observed, reads, okFiles,
      det, attributions, deduped, purlString, purlRet, doc, bom, parseErr, extracted, calls, sink>>

\* flag.Parse() on a command line it rejects: the flag package ends the
\* process with status 2 and run does not return.
CliFlagError ==
    /\ pc = "flags"
    /\ cli.flags = "bad"
    /\ cli' = [cli EXCEPT !.osExit = 2]
    /\ pc' = "aborted"
    /\ UNCHANGED <<cliFrame, filenames, ret>>

\* if *showVersion { ...; return exitSuccess }
CliVersion ==
    /\ pc = "flags"
    /\ cli.flags = "ok"
    /\ cli.showVersion
    /\ cli' = [cli EXCEPT !.exit = exitSuccess]
    /\ pc' = "exited"
    /\ UNCHANGED <<cliFrame, filenames, ret>>

\* if len(args) == 0 { ...; return exitInvalidArgs }
CliNoArguments ==
    /\ pc = "flags"
    /\ cli.flags = "ok"
    /\ ~cli.showVersion
    /\ Len(cli.args) = 0
    /\ cli' = [cli EXCEPT !.exit = exitInvalidArgs]
    /\ pc' = "exited"
    /\ UNCHANGED <<cliFrame, filenames, ret>>

\* files := expandPaths(args, logger)
CliExpandPaths ==
    /\ pc = "flags"
    /\ cli.flags = "ok"
    /\ ~cli.showVersion
    /\ Len(cli.args) # 0
    /\ filenames' = expandPaths(cli.args)
    /\ cli' = [cli EXCEPT !.examined = TRUE]
    /\ pc' = "expanded"
    /\ UNCHANGED <<cliFrame, ret>>

\* if len(files) == 0 { ...; return exitInvalidArgs }
CliNoFiles ==
    /\ pc = "expanded"
    /\ Len(filenames) = 0
    /\ cli' = [cli EXCEPT !.exit = exitInvalidArgs]
    /\ pc' = "exited"
    /\ UNCHANGED <<cliFrame, filenames, ret>>

\* attributions, err := sbomattr.ProcessFiles(ctx, files, logger)
CliProcessFiles ==
    /\ pc = "expanded"
    /\ Len(filenames) # 0
    /\ ret' = ProcessFilesBackground(filenames)
    /\ cli' = [cli EXCEPT !.handed = TRUE]
    /\ pc' = "processed"
    /\ UNCHANGED <<cliFrame, filenames>>

\* if err != nil { ...; return exitInvalidSBOM }
CliInvalidSBOM ==
    /\ pc = "processed"
    /\ ret.err # ErrNone
    /\ cli' = [cli EXCEPT !.exit = exitInvalidSBOM]
    /\ pc' = "exited"
    /\ UNCHANGED <<cliFrame, filenames, ret>>

\* err = format.CSV(os.Stdout, attributions); exitRuntimeError or exitSuccess
CliWriteCSV ==
    /\ pc = "processed"
    /\ ret.err = ErrNone
    /\ LET out == CSV(cli.stdoutFails, cli.spills)
       IN  cli' = [cli EXCEPT !.written = out.written,
                              !.exit = IF out.err # ErrNone THEN exitRuntimeError
                                       ELSE exitSuccess]
    /\ pc' = "exited"
    /\ UNCHANGED <<cliFrame, filenames, ret>>

NextCli ==
    \/ CliFlagError
    \/ CliVersion
    \/ CliNoArguments
    \/ CliExpandPaths
    \/ CliNoFiles
    \/ CliProcessFiles
    \/ CliInvalidSBOM
    \/ CliWriteCSV

SpecCli == InitCli /\ [][NextCli]_vars


\* A path argument that leaves no file: one that cannot be accessed, a
\* directory that cannot be read, a directory without a .json file.
LeavesNoFile(path) ==
    \/ path.kind \in {"missing", "unreadable-dir"}
    \/ /\ path.kind = "dir"
       /\ \A k \in 1..Len(path.entries) : path.entries[k].isDir \/ ~path.entries[k].json
NoFileLeft == \A i \in 1..Len(cli.args) : LeavesNoFile(cli.args[i])

\* C22: the exit code of run.  --version gives 0 before any path is looked
\* at; no path argument, or no file left by the expansion, gives 1; an error
\* of ProcessFiles gives 2; a failure to write the CSV gives 3; otherwise 0
\* with the CSV written; and 2 is never returned unless files were handed
\* to ProcessFiles.
C22_ExitCodes ==
    pc = "exited" =>
        /\ cli.showVersion => (cli.exit = 0 /\ ~cli.examined /\ ~cli.handed)
        /\ (~cli.showVersion /\ NoFileLeft) => (cli.exit = 1 /\ ~cli.handed)
        /\ (~cli.showVersion /\ ~NoFileLeft) => cli.handed
        /\ (cli.handed /\ ret.err # "") => cli.exit = 2
        /\ (cli.handed /\ ret.err = "" /\ cli.stdoutFails) => cli.exit = 3
        /\ (cli.handed /\ ret.err = "" /\ ~cli.stdoutFails) => (cli.exit = 0 /\ cli.written)
        /\ cli.exit = 2 => (cli.handed /\ Len(filenames) > 0)

\* C22, without the failure of the deferred Flush: the same mapping, with 3
\* given exactly when a write fails before the output has all been buffered.
C22_ExitCodesOfReportedErrors ==
    pc = "exited" =>
        /\ cli.showVersion => (cli.exit = 0 /\ ~cli.examined /\ ~cli.handed)
        /\ (~cli.showVersion /\ NoFileLeft) => (cli.exit = 1 /\ ~cli.handed)
        /\ (~cli.showVersion /\ ~NoFileLeft) => cli.handed
        /\ (cli.handed /\ ret.err # "") => cli.exit = 2
        /\ (cli.handed /\ ret.err = "" /\ cli.stdoutFails /\ cli.spills) => cli.exit = 3
        /\ (cli.handed /\ ret.err = "" /\ ~(cli.stdoutFails /\ cli.spills)) => cli.exit = 0
        /\ cli.exit = 0 /\ cli.handed /\ ~cli.stdoutFails => cli.written
        /\ cli.exit = 2 => (cli.handed /\ Len(filenames) > 0)

\* C22, the state that breaks it: stdout fails, the output fits the buffer,
\* and run returns 0 with nothing written.
C22_UnwrittenSuccess ==
    /\ pc = "exited"
    /\ cli.handed
    /\ cli.stdoutFails
    /\ ~cli.written
    /\ cli.exit = 0


\* C23: the unwrapping of DetectFormat looks at the shape of the input only.
\* With an sbom key that holds an object the answer is the answer for the
\* nested object on its own, whatever markers the outer object has; with an
\* sbom key that holds anything else (a string, null, an array, a number)
\* the answer is the answer for the outer object.
C23_UnwrapStructural ==
    (pc = "returned" /\ data.json = "object" /\ data.sbom.t # "absent") =>
        /\ data.sbom.t = "object" => det = DetectFormat(Plain(data.inner))
        /\ data.sbom.t # "object" => det = DetectFormat(Plain(data.outer))

\* C23 witness: {"sbom": {}, "spdxVersion": "SPDX-2.3"} is of unknown format.
C23_Witness ==
    /\ pc = "returned"
    /\ data = Wrapped(Obj(JStr("SPDX-2.3"), JAbsent, JAbsent, NoList, NoList), EmptyObj)
    /\ det = [format |-> "", err |-> ErrUnknownFormat]

\* C23, an sbom key that holds an array: the outer object is classified.
C23_WitnessSbomNotObject ==
    /\ pc = "returned"
    /\ data = WithSbomValue(JArray, Obj(JAbsent, JAbsent, JStr("CycloneDX"), NoList, NoList))
    /\ det = [format |-> "cyclonedx", err |-> ErrNone]


\* The object DetectFormat classifies: the nested object when the sbom key
\* holds an object, else the top-level object.
ClassifiedObject == IF data.sbom.t = "object" THEN data.inner ELSE data.outer

\* C24: the detector and the SPDX parser read the same object.  For every
\* input DetectFormat classifies as "spdx" whose classified object is a
\* well-formed SPDX document, Process returns what it returns for that
\* object on its own: no parse error, no empty document in its place.
C24_DetectorParserAgree ==
    (pc = "returned" /\ ~cancelled /\ data.json = "object"
        /\ DetectFormat(data).format = "spdx" /\ ~SpdxFieldMisfit(ClassifiedObject)) =>
        /\ procRet.err = ""
        /\ procRet = Process(FALSE, Plain(ClassifiedObject))

\* C24, where the two do agree: an input without an sbom key or with an sbom
\* key that holds an object.
C24_AgreeOnObjects ==
    (pc = "returned" /\ ~cancelled /\ data.json = "object" /\ data.sbom.t \in {"absent", "object"}
        /\ DetectFormat(data).format = "spdx" /\ ~SpdxFieldMisfit(ClassifiedObject)) =>
        /\ procRet.err = ""
        /\ procRet = Process(FALSE, Plain(ClassifiedObject))

\* C24, the state that breaks it: {"sbom": null} beside the keys of an SPDX
\* document with packages, and Process returning no attribution.
C24_DocumentLost ==
    /\ pc = "returned"
    /\ ~cancelled
    /\ data.sbom = JNull
    /\ data.outer.spdxVersion = JStr("SPDX-2.3")
    /\ data.outer.packages = JArr(<<PkgA>>)
    /\ procRet = Return(<<>>, ErrNone)


\* The purl of the model that PurlToURL's argument is the string of.
ParsedPurl == CHOOSE p \in KnownPurls : PurlString(p) = purlString

\* C25: the branches on the namespace.  For npm, golang and conda the
\* template without namespace is used exactly when the namespace is empty
\* (conda then under the channel "anaconda"); for docker and oci the URL is
\* https://hub.docker.com/_/{name} exactly when the namespace is empty or
\* "library", and https://hub.docker.com/r/{namespace}/{name} otherwise; and
\* the golang URL is the same for every version.
C25_NamespaceBranches ==
    (pc = "returned" /\ \E p \in KnownPurls : PurlString(p) = purlString) =>
        LET p == ParsedPurl
            ns == p.namespace
            n == p.name
            v == p.version
            url == purlRet.url
        IN  /\ p.type = "npm" =>
                  /\ (ns = "") <=> (url = <<"https://www.npmjs.com/package/" \o n \o "/v/" \o v>>)
                  /\ (ns # "") <=>
                        (url = <<"https://www.npmjs.com/package/" \o ns \o "/" \o n \o "/v/" \o v>>)
            /\ p.type = "golang" =>
                  /\ (ns = "") <=> (url = <<"https://pkg.go.dev/" \o n>>)
                  /\ (ns # "") <=> (url = <<"https://pkg.go.dev/" \o ns \o "/" \o n>>)
                  /\ \A w \in {"1", "2"} :
                        PurlToURL(PurlString([p EXCEPT !.version = w])).url = url
            /\ p.type = "conda" =>
                  /\ (ns = "") <=> (url = <<"https://anaconda.org/anaconda/" \o n>>)
                  /\ (ns # "") <=> (url = <<"https://anaconda.org/" \o ns \o "/" \o n>>)
            /\ p.type \in {"docker", "oci"} =>
                  /\ (ns \in {"", "library"}) <=> (url = <<"https://hub.docker.com/_/" \o n>>)
                  /\ (ns \notin {"", "library"}) <=>
                        (url = <<"https://hub.docker.com/r/" \o ns \o "/" \o n>>)

\* C25 witness: a docker purl of namespace "library", an official image.
C25_Witness ==
    /\ pc = "returned"
    /\ purlString = "pkg:docker/library/a@1"
    /\ purlRet = [url |-> <<"https://hub.docker.com/_/a">>, err |-> ""]

\* C25, conda without namespace: the default channel.
C25_WitnessCondaDefault ==
    /\ pc = "returned"
    /\ purlString = "pkg:conda/a@2"
    /\ purlRet.url = <<"https://anaconda.org/anaconda/a">>


\* C26: ProcessFiles does nothing after its check has seen the cancellation.
\* The files are read in the order of the argument, each once (the k-th read
\* is of file k); a step taken at the head of the loop with the signal set
\* returns the cancellation error with a nil list and reads, detects, parses
\* and resolves nothing, so no file after it is touched and the list is not
\* deduplicated; and no step follows the return.
C26_NoWorkAfterCancellation ==
    /\ [](reads = [k \in 1..Len(reads) |-> k])
    /\ [][(pc = "loop" /\ idx <= Len(filenames) /\ cancelled) =>
              /\ pc' = "done"
              /\ ret' = ReturnNil(ErrCanceled)
              /\ reads' = reads
              /\ data' = data
              /\ procRet' = procRet
              /\ okFiles' = okFiles
              /\ allAttributions' = allAttributions]_vars
    /\ [][pc # "done"]_vars

\* C26 witness: a batch of two files cancelled after the first was read and
\* processed: the second is never read and the call returns the
\* cancellation error.
C26_Witness ==
    /\ pc = "done"
    /\ ~startCancelled
    /\ Len(filenames) = 2
    /\ reads = <<1>>
    /\ okFiles = <<1>>
    /\ ret = ReturnNil(ErrCanceled)


\* Two attributions that denote the same package by a key of the same
\* kind: the same non-empty purl, or no purl and the same name.
SameKindKey(a, b) ==
    \/ a.Purl # "" /\ a.Purl = b.Purl
    \/ a.Purl = "" /\ b.Purl = "" /\ a.Name = b.Name

\* The indices of xs without an earlier attribution of the same key of the
\* same kind.
FirstOfKind(xs) == {i \in 1..Len(xs) : \A j \in 1..(i - 1) : ~SameKindKey(xs[j], xs[i])}

\* C29: Deduplicate drops an attribution only for an earlier one with the
\* same non-empty purl, or, both without purl, with the same name; an
\* attribution without purl is not dropped because its name is the purl of
\* an earlier one, nor the other way round.
C29_CollapseSameKindOnly ==
    pc \in {"once", "twice"} => deduped = SubListFrom(attributions, FirstOfKind(attributions), 1)

\* C29, the state that breaks it: an attribution without purl, its name the
\* purl of an earlier attribution, dropped.
C29_NameTakenForPurl ==
    /\ pc = "once"
    /\ attributions = <<A1, A4>>
    /\ deduped = <<A1>>

\* C29, the keys apart: on a list in which no name of an attribution without
\* purl is the purl of another, only attributions of the same kind of key
\* are collapsed.
C29_CollapseWithoutCrossKeys ==
    (pc \in {"once", "twice"}
        /\ \A i, j \in 1..Len(attributions) :
              ~(attributions[i].Purl = "" /\ attributions[j].Purl # ""
                  /\ attributions[i].Name = attributions[j].Purl)) =>
        deduped = SubListFrom(attributions, FirstOfKind(attributions), 1)


\* The attributions the file at index i of the batch yields when its Process
\* call succeeds.
ProducedBy(i) == Process(FALSE, filenames[i].bytes).attrs

Range(xs) == {xs[k] : k \in 1..Len(xs)}

\* The attributions produced by the successfully processed files.
ProducedBySuccessful == UNION {Range(ProducedBy(okFiles[k])) : k \in 1..Len(okFiles)}

\* C30: when ProcessFiles returns without error, the returned list is not
\* empty, no two of its attributions have the same key (the purl when there
\* is one, the name otherwise), each of them was produced by a successfully
\* processed file, and every key produced by a successfully processed file
\* is the key of a returned attribution.
C30_SuccessPostcondition ==
    (pc = "done" /\ ret.err = ErrNone) =>
        /\ ~ret.isNil
        /\ Len(ret.attrs) > 0
        /\ \A i, j \in 1..Len(ret.attrs) :
              i # j => StatedKey(ret.attrs[i]) # StatedKey(ret.attrs[j])
        /\ Range(ret.attrs) \subseteq ProducedBySuccessful
        /\ {StatedKey(a) : a \in ProducedBySuccessful} =
               {StatedKey(a) : a \in Range(ret.attrs)}

\* C30 witness: a successful batch of two successfully processed files that
\* produce an attribution of the same key, returned once, with a key that
\* only the second file produces.
C30_Witness ==
    /\ pc = "done"
    /\ ret.err = ErrNone
    /\ okFiles = <<1, 2>>
    /\ \E a \in Range(ProducedBy(1)), b \in Range(ProducedBy(2)) : StatedKey(a) = StatedKey(b)
    /\ \E b \in Range(ProducedBy(2)) :
          \A a \in Range(ProducedBy(1)) : StatedKey(a) # StatedKey(b)
    /\ Len(ret.attrs) < Len(ProducedBy(1)) + Len(ProducedBy(2))

\* C30 witness: the context cancelled while the last file is processed; the
\* call still returns the attributions of the files processed before it.
C30_WitnessCancelledLate ==
    /\ pc = "done"
    /\ ret.err = ErrNone
    /\ cancelled
    /\ Len(okFiles) < Len(filenames)
    /\ procRet.err = ErrCanceled


(***************************************************************************)
(* The logger argument.  logger tells whether the *slog.Logger handed to   *)
(* the call is non-nil; each operator gives what the call returns (ret)    *)
(* and the records it hands to the logger, in order (log).                 *)
(***************************************************************************)
\* if logger != nil { logger.Debug(msg, ...) }
Logged(logger, msg) == IF logger THEN <<msg>> ELSE <<>>

\* mapPurlToURL(purl, logger): the default case of the switch logs.
mapPurlToURLLogged(purl, logger) ==
    LET r == mapPurlToURL(purl)
    IN  [ret |-> r,
         log |-> IF r.err = ErrUnsupportedPurlType
                 THEN Logged(logger, "purl type not supported")
                 ELSE <<>>]

\* PurlToURL(purlString, logger)
PurlToURLLogged(str, logger) ==
    IF IsBlank(str)
    THEN [ret |-> [url |-> NilPtr, err |-> ErrEmptyPurl], log |-> <<>>]
    ELSE LET parsed == FromString(str)
         IN  IF parsed.err # ErrNone
             THEN [ret |-> [url |-> NilPtr, err |-> ErrParsePurl], log |-> <<>>]
             ELSE mapPurlToURLLogged(parsed.purl, logger)

\* A plausible slip: the branches of the loop body the other way round,
\* if logger != nil && seen[key] { log } else { keep }.
DedupIterationLoggingFirst(a, seen, result, logger) ==
    LET key == Key(a)
    IN  IF logger /\ key \in seen
        THEN [seen |-> seen, result |-> result, log |-> <<"skipping duplicate attribution">>]
        ELSE [seen |-> seen \cup {key}, result |-> Append(result, a), log |-> <<>>]

\* One pass of the body of Deduplicate's loop:
\* if !seen[key] { seen[key] = true; result = append(result, a) }
\* else if logger != nil { logger.Debug("skipping duplicate attribution") }
DedupIteration(a, seen, result, logger) ==
    LET key == Key(a)
    IN  IF key \notin seen
        THEN [seen |-> seen \cup {key}, result |-> Append(result, a), log |-> <<>>]
        ELSE IF logger
        THEN [seen |-> seen, result |-> result, log |-> <<"skipping duplicate attribution">>]
        ELSE [seen |-> seen, result |-> result, log |-> <<>>]

RECURSIVE DedupLoopLogged(_, _, _, _, _, _)
DedupLoopLogged(xs, i, seen, result, log, logger) ==
    IF i > Len(xs) THEN [ret |-> result, log |-> log]
    ELSE LET it == DedupIteration(xs[i], seen, result, logger)
         IN  DedupLoopLogged(xs, i + 1, it.seen, it.result, log \o it.log, logger)

\* Deduplicate(attributions, logger)
DeduplicateLogged(xs, logger) == DedupLoopLogged(xs, 1, {}, <<>>, <<>>, logger)

\* Process(ctx, data, logger) with a context that is not cancelled: the
\* logger is handed the detected format and is not passed on.
ProcessLogged(bytes, logger) ==
    LET detected == DetectFormat(bytes)
    IN  IF detected.err # ErrNone
        THEN [ret |-> ReturnNil(ErrDetect), log |-> <<>>]
        ELSE [ret |-> Process(FALSE, bytes), log |-> Logged(logger, "detected SBOM format")]

(***************************************************************************)
(* Two calls of the engine running concurrently, each on its own inputs    *)
(* and with its own logger argument, their contexts never cancelled.  A    *)
(* call is a record: its kind, its logger, the arguments as the caller     *)
(* handed them over (given) and the storage they occupy (args), the locals *)
(* of the call and what it returned.  ProcessFiles advances by one file    *)
(* read and one Process call at a time, Deduplicate by one pass of its     *)
(* loop; Process and PurlToURL have no loop and take one step.  The sink   *)
(* is the one thing the calls share.                                       *)
(***************************************************************************)
\* A file of two packages with the same key.
DupFile == Readable(Plain(SpdxObj(<<PkgA, PkgA2>>)))
CallFiles == {DupFile, BadFile, Unreadable}
CallAttrs == {A1, A2}
CallPurls == {"", PurlA, "pkg:mlflow/a@1"}

NoArgs == [files |-> <<>>, bytes |-> InvalidJSON, attrs |-> <<>>, purl |-> ""]

NoResult == [attrs |-> <<>>, isNil |-> TRUE, err |-> ErrNone, url |-> NilPtr]
ListResult(r) == [attrs |-> r.attrs, isNil |-> r.isNil, err |-> r.err, url |-> NilPtr]
URLResult(r) == [attrs |-> <<>>, isNil |-> TRUE, err |-> r.err, url |-> r.url]

NewCall(kind, logger, args) ==
    [kind |-> kind, logger |-> logger, given |-> args, args |-> args, pc |-> "run",
     i |-> 1, data |-> InvalidJSON, all |-> <<>>, seen |-> {}, result |-> <<>>,
     ret |-> NoResult]

CallPool ==
    {NewCall("ProcessFiles", l, [NoArgs EXCEPT !.files = fs]) :
        l \in BOOLEAN, fs \in SeqsUpTo(CallFiles, MaxFiles)}
    \cup {NewCall("Process", l, [NoArgs EXCEPT !.bytes = f.bytes]) :
        l \in BOOLEAN, f \in CallFiles \ {Unreadable}}
    \cup {NewCall("Deduplicate", l, [NoArgs EXCEPT !.attrs = xs]) :
        l \in BOOLEAN, xs \in SeqsUpTo(CallAttrs, MaxPkgs)}
    \cup {NewCall("PurlToURL", l, [NoArgs EXCEPT !.purl = str]) :
        l \in BOOLEAN, str \in CallPurls}

InitCalls ==
    /\ calls \in [1..2 -> CallPool]
    /\ sink = {}
    /\ pc = "calls"
    /\ NoBatchCall
    /\ purlString = ""
    /\ purlRet = NoURL
    /\ doc = <<>>
    /\ bom = <<>>
    /\ extracted = NotExtracted
    /\ parseErr = ""
    /\ cli = NoCli

callsFrame == <<pc, batchVars, purlString, purlRet, doc, bom, extracted, parseErr, cli>>

\* What call c hands to its logger reaches the sink.
Write(c, log) == sink' = sink \cup {[call |-> c, msg |-> log[k]] : k \in 1..Len(log)}

\* ProcessFiles, the head of the loop body: the debug record, os.ReadFile,
\* and the error record and continue when the read fails.
CallFilesRead(c) ==
    LET call == calls[c]
        file == call.args.files[call.i]
    IN  /\ call.kind = "ProcessFiles"
        /\ call.pc = "run"
        /\ call.i <= Len(call.args.files)
        /\ IF file.readable
           THEN /\ calls' = [calls EXCEPT ![c].data = file.bytes, ![c].pc = "process"]
                /\ Write(c, Logged(call.logger, "processing file"))
           ELSE /\ calls' = [calls EXCEPT ![c].i = call.i + 1]
                /\ Write(c, Logged(call.logger, "processing file")
                                \o Logged(call.logger, "failed to read file"))
        /\ UNCHANGED callsFrame

\* ProcessFiles, the rest of the loop body: Process(ctx, data, logger), the
\* error record and continue, or the append.
CallFilesProcess(c) ==
    LET call == calls[c]
        r == ProcessLogged(call.data, call.logger)
    IN  /\ call.kind = "ProcessFiles"
        /\ call.pc = "process"
        /\ IF r.ret.err # ErrNone
           THEN /\ calls' = [calls EXCEPT ![c].i = call.i + 1, ![c].pc = "run"]
                /\ Write(c, r.log \o Logged(call.logger, "failed to process file"))
           ELSE /\ calls' = [calls EXCEPT ![c].i = call.i + 1, ![c].pc = "run",
                                          ![c].all = call.all \o r.ret.attrs]
                /\ Write(c, r.log)
        /\ UNCHANGED callsFrame

\* ProcessFiles after the loop: the test for an empty list, Deduplicate and
\* the return.
CallFilesFinish(c) ==
    LET call == calls[c]
        d == DeduplicateLogged(call.all, call.logger)
    IN  /\ call.kind = "ProcessFiles"
        /\ call.pc = "run"
        /\ call.i > Len(call.args.files)
        /\ IF Len(call.all) = 0
           THEN /\ calls' = [calls EXCEPT ![c].pc = "done",
                                          ![c].ret = ListResult(ReturnNil(ErrNoAttributions))]
                /\ UNCHANGED sink
           ELSE /\ calls' = [calls EXCEPT ![c].pc = "done",
                                          ![c].ret = ListResult(Return(d.ret, ErrNone))]
                /\ Write(c, d.log)
        /\ UNCHANGED callsFrame

\* Process(ctx, data, logger) called directly
CallProcess(c) ==
    LET call == calls[c]
        r == ProcessLogged(call.args.bytes, call.logger)
    IN  /\ call.kind = "Process"
        /\ call.pc = "run"
        /\ calls' = [calls EXCEPT ![c].pc = "done", ![c].ret = ListResult(r.ret)]
        /\ Write(c, r.log)
        /\ UNCHANGED callsFrame

\* A plausible slip: seen kept at package level, one map for every call.
CallDedupStepSharedSeen(c) ==
    LET call == calls[c]
        shared == UNION {calls[k].seen : k \in 1..2}
        it == DedupIteration(call.args.attrs[call.i], shared, call.result, call.logger)
    IN  /\ call.kind = "Deduplicate"
        /\ call.pc = "run"
        /\ call.i <= Len(call.args.attrs)
        /\ calls' = [calls EXCEPT ![c].i = call.i + 1, ![c].seen = call.seen \cup (it.seen \ shared),
                                  ![c].result = it.result]
        /\ Write(c, it.log)
        /\ UNCHANGED callsFrame

\* Deduplicate called directly: one pass of its loop over the call's own
\* seen and result.
CallDedupStep(c) ==
    LET call == calls[c]
        it == DedupIteration(call.args.attrs[call.i], call.seen, call.result, call.logger)
    IN  /\ call.kind = "Deduplicate"
        /\ call.pc = "run"
        /\ call.i <= Len(call.args.attrs)
        /\ calls' = [calls EXCEPT ![c].i = call.i + 1, ![c].seen = it.seen,
                                  ![c].result = it.result]
        /\ Write(c, it.log)
        /\ UNCHANGED callsFrame

\* Deduplicate called directly: return result
CallDedupReturn(c) ==
    LET call == calls[c]
    IN  /\ call.kind = "Deduplicate"
        /\ call.pc = "run"
        /\ call.i > Len(call.args.attrs)
        /\ calls' = [calls EXCEPT ![c].pc = "done",
                                  ![c].ret = ListResult(Return(call.result, ErrNone))]
        /\ UNCHANGED <<sink, callsFrame>>

\* PurlToURL(purlString, logger) called directly
CallPurlToURL(c) ==
    LET call == calls[c]
        r == PurlToURLLogged(call.args.purl, call.logger)
    IN  /\ call.kind = "PurlToURL"
        /\ call.pc = "run"
        /\ calls' = [calls EXCEPT ![c].pc = "done", ![c].ret = URLResult(r.ret)]
        /\ Write(c, r.log)
        /\ UNCHANGED callsFrame

NextCalls ==
    \E c \in 1..2 :
        \/ CallFilesRead(c)
        \/ CallFilesProcess(c)
        \/ CallFilesFinish(c)
        \/ CallProcess(c)
        \/ CallDedupStep(c)
        \/ CallDedupReturn(c)
        \/ CallPurlToURL(c)

SpecCalls == InitCalls /\ [][NextCalls]_vars


\* What a call returns when it runs alone, by the sequential reading of the
\* function it calls.
RunAlone(call) ==
    CASE call.kind = "ProcessFiles" -> ListResult(ProcessFilesBackground(call.given.files))
      [] call.kind = "Process" -> ListResult(Process(FALSE, call.given.bytes))
      [] call.kind = "Deduplicate" -> ListResult(Return(FirstPerKey(call.given.attrs), ErrNone))
      [] call.kind = "PurlToURL" -> URLResult(PurlToURL(call.given.purl))

C27_WitnessProcessFiles ==
    /\ DOMAIN calls = 1..2
    /\ calls[1].kind = "ProcessFiles"
    /\ calls[1].pc = "done"
    /\ calls[1].ret.err = ErrNone
    /\ calls[2].kind = "ProcessFiles"
    /\ calls[2].pc = "process"
    /\ calls[2].all # <<>>

\* C28: two calls of the same function on the same input, one with a nil
\* logger and one with a logger, return the same list or URL and the same
\* error; and nothing reaches the sink from a call whose logger is nil.
C28_LoggerWithoutInfluence ==
    /\ \A c, d \in DOMAIN calls :
          (/\ calls[c].pc = "done"
           /\ calls[d].pc = "done"
           /\ calls[c].kind = calls[d].kind
           /\ calls[c].given = calls[d].given
           /\ calls[c].logger # calls[d].logger) => calls[c].ret = calls[d].ret
    /\ \A r \in sink : calls[r.call].logger

\* C28 witness: ProcessFiles has returned twice for the same files, once
\* with a logger that was handed a failure and a skipped duplicate, once
\* with a nil logger.
C28_Witness ==
    /\ DOMAIN calls = 1..2
    /\ calls[1].kind = "ProcessFiles"
    /\ calls[2].kind = "ProcessFiles"
    /\ calls[1].given = calls[2].given
    /\ calls[1].logger
    /\ ~calls[2].logger
    /\ calls[1].pc = "done"
    /\ calls[2].pc = "done"
    /\ calls[1].ret.err = ErrNone
    /\ [call |-> 1, msg |-> "skipping duplicate attribution"] \in sink
    /\ [call |-> 1, msg |-> "failed to process file"] \in sink

\* C28 witness: PurlToURL has returned twice for a purl of an unsupported
\* type, the logger of one call holding the record of it.
C28_WitnessPurlToURL ==
    /\ DOMAIN calls = 1..2
    /\ calls[1].kind = "PurlToURL"
    /\ calls[2].kind = "PurlToURL"
    /\ calls[1].given = calls[2].given
    /\ calls[1].logger
    /\ ~calls[2].logger
    /\ calls[1].pc = "done"
    /\ calls[2].pc = "done"
    /\ calls[1].ret.err = ErrUnsupportedPurlType
    /\ sink = {[call |-> 1, msg |-> "purl type not supported"]}

\* C28 witness: Deduplicate and Process have returned for a logger that was
\* handed a record.
C28_WitnessDirectCalls ==
    /\ DOMAIN calls = 1..2
    /\ calls[1].kind = "Deduplicate"
    /\ calls[2].kind = "Process"
    /\ calls[1].pc = "done"
    /\ calls[2].pc = "done"
    /\ [call |-> 1, msg |-> "skipping duplicate attribution"] \in sink
    /\ [call |-> 2, msg |-> "detected SBOM format"] \in sink

====
